---- MODULE Spec2Model ----
(***************************************************************************)
(* GlovePost: the deduplication / quality filter (content_filter.py and    *)
(* content_filter_fixed.py), the two recommendation entry points           *)
(* (ml_recommendation_engine.py and recommendation_engine.py) and the      *)
(* model training / publishing path of ml_recommendation_engine.py.        *)
(*                                                                         *)
(* Text is modelled as a sequence of words plus `pad` characters of plain  *)
(* prose on a `topic`; scores are integers in units of 1/6000 (0.5 = 3000) *)
(* so that every delta of the scoring code is exact.  The TF-IDF cosine    *)
(* similarity and difflib ratio are library results: they are tables over  *)
(* the topic / the title.                                                  *)
(***************************************************************************)
EXTENDS Integers, Sequences, FiniteSets, TLC

VARIABLES
    impl,        \* which filter script runs against the collection
    store,       \* the content collection: _id -> document
    fphase,      \* "idle", "legacy", "fixed"
    runs,        \* number of filter runs started so far
    articles,    \* the documents read at the start of the run (cursor / articles)
    existing,    \* content_filter.py: existing_items, the comparison list
    pending,     \* documents of the batch not yet processed
    results,     \* _id -> what processing the document returned (fixed: the futures)
    stats,       \* the run's counters
    dryrun,      \* fixed: args.dryrun of the current run
    runlog,      \* what the finished runs did (observation only)
    mongo,               \* MONGODB_AVAILABLE
    content_collection,  \* the documents the engines read, newest first
    user_interactions,   \* the user_interactions collection
    caller_original,     \* the preferences as the caller built them
    caller_prefs,        \* the caller's preferences object, as it is now
    mock_rating_stats,   \* recommendation_engine.py: mock items carrying rating_stats
    last,                \* the last recommend call and what it returned
    model_file,          \* recommendation_model.txt: the training it holds, 0 if missing
    encoders_file,       \* label_encoders.json, likewise
    importance_file,     \* feature_importance.json, likewise
    model_fresh,         \* the model file is less than 24 hours old
    next_version,        \* the number the next training gets
    pc,                  \* where each request is in train_model
    mine,                \* the training each request holds in memory
    got,                 \* what train_model returned to each request
    calls,               \* what each request's train_model call has done so far
    div_data,            \* the scored candidates handed to the diversity selection
    div_limit,           \* the limit of that selection, 0 before it ran
    div_result,          \* what the selection kept, in order
    q_item,              \* the item whose quality is scored
    q_variant,           \* the same item with phrases added to its content
    q_scored,            \* what scoring the two items computed and wrote
    ex_content,          \* the content item an explanation is asked for
    ex_details,          \* the score_details handed to generate_explanation
    ex_result,           \* the explanation returned: its opening and its reasons
    cand,                \* a candidate generation: its inputs and what it produced
    refresh              \* a content refresh cycle: its queue, its workers, its main thread

fvars == <<impl, store, fphase, runs, articles, existing, pending, results, stats, dryrun, runlog>>

rvars == <<mongo, content_collection, user_interactions, caller_original, caller_prefs,
           mock_rating_stats, last>>

tvars == <<model_file, encoders_file, importance_file, model_fresh, next_version, pc, mine,
           got, calls>>

dvars == <<div_data, div_limit, div_result>>

\* the variables of the functions checked on their own
qvars == <<q_item, q_variant, q_scored>>
evars == <<ex_content, ex_details, ex_result>>
pvars == <<dvars, qvars, evars, cand, refresh>>

vars == <<fvars, rvars, tvars, pvars>>

----------------------------------------------------------------------------
(* Bounds *)

MaxRuns == 2

ItemIds == {1, 2}

Min(a, b) == IF a < b THEN a ELSE b
Max(a, b) == IF a > b THEN a ELSE b

----------------------------------------------------------------------------
(* Text *)

GAP == "  "

WordLen(w) ==
    CASE w = "click" -> 5
      [] w = "here" -> 4
      [] w = "sponsored" -> 9
      [] w = "content" -> 7
      [] w = "comments" -> 8
      [] w = "amazing" -> 7
      [] w = "experts" -> 7
      [] w = "say" -> 3
      [] w = "buy" -> 3
      [] w = "now" -> 3
      [] w = "incredible" -> 10
      [] w = "unbelievable" -> 12
      [] OTHER -> 0

RECURSIVE WordsLen(_)
WordsLen(s) == IF s = <<>> THEN 0 ELSE WordLen(Head(s)) + 1 + WordsLen(Tail(s))

\* len(content_summary)
TextLen(pad, toks) == pad + WordsLen(toks)

HasAt(s, p, i) ==
    /\ i + Len(p) - 1 <= Len(s)
    /\ \A k \in 1..Len(p) : s[i + k - 1] = p[k]

\* phrase in content.lower()
Contains(s, p) == \E i \in 1..Len(s) : HasAt(s, p, i)

\* re.sub(re.escape(phrase), '', content): the blanks around the phrase stay
RECURSIVE RemoveAll(_, _)
RemoveAll(s, p) ==
    IF s = <<>> THEN <<>>
    ELSE IF HasAt(s, p, 1)
         THEN <<GAP>> \o RemoveAll(SubSeq(s, Len(p) + 1, Len(s)), p)
         ELSE <<Head(s)>> \o RemoveAll(Tail(s), p)

\* for phrase in phrases: if phrase in content.lower(): content = re.sub(...)
RECURSIVE StripPhrases(_, _)
StripPhrases(s, ps) ==
    IF ps = <<>> THEN s
    ELSE StripPhrases(IF Contains(s, Head(ps)) THEN RemoveAll(s, Head(ps)) ELSE s,
                      Tail(ps))

\* re.sub(r'\s+', ' ', content).strip()
NormalizeSpace(s) == SelectSeq(s, LAMBDA t : t # GAP)

AD_PHRASES == << <<"sponsored", "content">>, <<"click", "here">>, <<"buy", "now">> >>
CLICKBAIT_PHRASES == << <<"amazing">>, <<"incredible">>, <<"unbelievable">> >>
FLUFF_PHRASES == << <<"experts", "say">> >>

\* a count that finds no phrase
CountNoPhrases(s, ps) == 0

CountPhrases(s, ps) == Cardinality({k \in 1..Len(ps) : Contains(s, ps[k])})

\* cosine_similarity of the TF-IDF vectors, in percent
CosineSimilarity(a, b) == IF a.topic = b.topic THEN 100 ELSE 20

\* difflib.SequenceMatcher(None, a, b).ratio(), in percent
TitleRatio(a, b) == IF a = b THEN 100 ELSE 40

REPUTABLE_SOURCES == {"Reuters"}

----------------------------------------------------------------------------
(* Documents of the content collection *)

MIN_CONTENT_LENGTH == 100
MIN_TITLE_LENGTH == 5
MAX_DUPLICATE_SCORE == 85
QUALITY_THRESHOLD == 3000
SimilarityThresholdDefault == 85
QualityThresholdDefault == 3000

TitleLen(t) ==
    CASE t = "City council votes" -> 18
      [] t = "Storm hits coast" -> 16
      [] t = "You won't believe this amazing storm" -> 36
      [] OTHER -> 0

Gone == [present |-> FALSE, url |-> "", title |-> "", topic |-> "", toks |-> <<>>,
         pad |-> 0, source |-> "", up |-> 0, down |-> 0, words |-> 0, ease |-> 0,
         filtered |-> FALSE, reason |-> "", qscore |-> -1]

RawDocs ==
    [present : {TRUE},
     url : {"http://example-news.com/1", "http://example-news.com/2"},
     title : {"City council votes", "Storm hits coast"},
     topic : {"budget", "weather"},
     toks : { <<>>, <<"click", "sponsored", "content", "here">>, <<"comments">> },
     pad : {30, 150, 1100},
     source : {"blog"}, up : {0}, down : {0}, words : {15}, ease : {45},
     filtered : {FALSE}, reason : {""}, qscore : {-1}]

ContentLen(d) == TextLen(d.pad, d.toks)

\* the score returned as computed
Unclamped(x) == x

Clamp(x) == Max(0, Min(6000, x))

\* (upvotes - downvotes) / (upvotes + downvotes + 1) * 0.1, when more than 10 votes
Feedback(d) ==
    IF d.up + d.down > 10 THEN (600 * (d.up - d.down)) \div (d.up + d.down + 1) ELSE 0

----------------------------------------------------------------------------
(* content_filter.py *)

\* clean_content: noise phrases removed, whitespace normalised
clean_content(toks) ==
    LET NOISE_PHRASES == << <<"comments">> >>
    IN NormalizeSpace(StripPhrases(toks, NOISE_PHRASES))

\* is_duplicate without its content-similarity step
is_duplicate_urls_titles(item, ex) ==
    IF item.url # "" /\ \E e \in ex : e.url = item.url
    THEN [dup |-> TRUE, reason |-> "Duplicate: Exact URL match"]
    ELSE IF /\ item.title # ""
            /\ TitleLen(item.title) > MIN_TITLE_LENGTH
            /\ \E e \in ex : e.title # "" /\ TitleRatio(item.title, e.title) > 90
    THEN [dup |-> TRUE,
          reason |-> IF \E e \in ex : e.title = item.title
                     THEN "Duplicate: Exact title match"
                     ELSE "Duplicate: Similar title"]
    ELSE [dup |-> FALSE, reason |-> ""]

\* is_duplicate: URL, then title, then content similarity
is_duplicate(item, ex) ==
    IF item.url # "" /\ \E e \in ex : e.url = item.url
    THEN [dup |-> TRUE, reason |-> "Duplicate: Exact URL match"]
    ELSE IF /\ item.title # ""
            /\ TitleLen(item.title) > MIN_TITLE_LENGTH
            /\ \E e \in ex : e.title # "" /\ TitleRatio(item.title, e.title) > 90
    THEN [dup |-> TRUE,
          reason |-> IF \E e \in ex : e.title = item.title
                     THEN "Duplicate: Exact title match"
                     ELSE "Duplicate: Similar title"]
    ELSE IF /\ ContentLen(item) > MIN_CONTENT_LENGTH
            /\ \E e \in ex : ContentLen(e) > 0 /\ CosineSimilarity(item, e) > MAX_DUPLICATE_SCORE
    THEN [dup |-> TRUE, reason |-> "Duplicate: Content similarity"]
    ELSE [dup |-> FALSE, reason |-> ""]

\* calculate_quality_score of content_filter.py, before its final clamp.  `words`
\* is the average number of words per sentence of the content
legacy_raw_score(d) ==
    LET len == ContentLen(d)
        tl == TitleLen(d.title)
        ad == CountPhrases(d.toks, AD_PHRASES)
        fl == CountPhrases(d.toks, FLUFF_PHRASES)
        \* how many CLICKBAIT_PHRASES the lower-cased title contains
        title_clickbait ==
            IF d.title = "You won't believe this amazing storm" THEN 2 ELSE 0
        \* urlparse(url).netloc
        domain == CASE d.url = "http://example-news.com/1" -> "example-news.com"
                    [] d.url = "http://example-news.com/2" -> "example-news.com"
                    [] d.url = "http://win.xyz/1" -> "win.xyz"
                    [] OTHER -> ""
        domain_len == CASE domain = "example-news.com" -> 16
                        [] domain = "win.xyz" -> 7
                        [] OTHER -> 0
    IN 3000
       + (IF len < MIN_CONTENT_LENGTH THEN -1200
          ELSE IF len > 1000 THEN 900
          ELSE IF len > 500 THEN 600 ELSE 0)
       + (IF tl < MIN_TITLE_LENGTH THEN -600 ELSE IF tl > 80 THEN 300 ELSE 0)
       - 900 * title_clickbait
       - (IF ad > 0 THEN Min(600, 300 * ad) ELSE 0)
       - (IF fl > 0 THEN Min(300, 100 * fl) ELSE 0)
       + (IF len = 0 THEN 0
          ELSE IF d.words > 25 THEN 600 ELSE IF d.words < 8 THEN -600 ELSE 0)
       + (IF d.source \in REPUTABLE_SOURCES THEN 600 ELSE 0)
       - (IF d.url # "" /\ domain = "win.xyz" THEN 600 ELSE 0)
       - (IF d.url # "" /\ domain_len < 10 THEN 300 ELSE 0)
       + Feedback(d)

\* score = max(0, min(1, score))
legacy_quality_score(d) == Clamp(legacy_raw_score(d))

\* one iteration of the loop of process_content: the update written for `item`
LegacyOutcome(item, ex) ==
    LET cleaned == clean_content(item.toks)
        d == is_duplicate(item, ex)
        q == legacy_quality_score(item)
    IN IF TextLen(item.pad, cleaned) < MIN_CONTENT_LENGTH
       THEN [verdict |-> "Content too short",
             doc |-> [item EXCEPT !.filtered = TRUE, !.reason = "Content too short",
                                  !.qscore = 0]]
       ELSE IF d.dup
       THEN [verdict |-> d.reason,
             doc |-> [item EXCEPT !.filtered = TRUE, !.reason = d.reason]]
       ELSE IF q < QUALITY_THRESHOLD
       THEN [verdict |-> "Low quality",
             doc |-> [item EXCEPT !.filtered = TRUE, !.reason = "Low quality",
                                  !.qscore = q]]
       ELSE [verdict |-> "accepted",
             doc |-> [item EXCEPT !.toks = cleaned, !.filtered = TRUE, !.qscore = q]]

----------------------------------------------------------------------------
(* content_filter_fixed.py *)

\* detect_duplicate: URL match against the other articles, then TF-IDF similarity
detect_duplicate(article, id, all_articles) ==
    IF /\ article.url \notin {"", "#"}
       /\ \E j \in DOMAIN all_articles : j # id /\ all_articles[j].url = article.url
    THEN [dup |-> TRUE, reason |-> "Exact URL match"]
    ELSE IF article.title = "" \/ ContentLen(article) = 0
    THEN [dup |-> FALSE, reason |-> ""]
    ELSE IF \E j \in DOMAIN all_articles :
               j # id /\ CosineSimilarity(article, all_articles[j]) > SimilarityThresholdDefault
    THEN [dup |-> TRUE, reason |-> "Similar content"]
    ELSE [dup |-> FALSE, reason |-> ""]

\* calculate_quality_score of content_filter_fixed.py, before its final clamp.
\* `ease` is the Flesch reading ease of the content and `words` the average
\* number of words per sentence
fixed_raw_score(d) ==
    LET len == ContentLen(d)
        ad == CountPhrases(d.toks, AD_PHRASES)
        cb == CountPhrases(d.toks, CLICKBAIT_PHRASES)
        fl == CountPhrases(d.toks, FLUFF_PHRASES)
    IN 3000
       + (IF len < 50 THEN -1800 ELSE IF len > 1000 THEN 900 ELSE 0)
       - (IF ad > 0 THEN Min(1200, 600 * ad) ELSE 0)
       - (IF cb > 0 THEN Min(900, 450 * cb) ELSE 0)
       - (IF fl > 0 THEN Min(600, 200 * fl) ELSE 0)
       + (IF d.ease > 60 THEN 600 ELSE IF d.ease < 30 THEN -600 ELSE 0)
       + (IF d.words < 5 THEN -600 ELSE IF d.words > 20 THEN 300 ELSE 0)
       + (IF d.source \in REPUTABLE_SOURCES THEN 900 ELSE 0)
       + Feedback(d)

\* missing content or title: 0.5 - 0.4 is returned at once; otherwise
\* max(0.0, min(1.0, score))
fixed_quality_score(d) ==
    IF ContentLen(d) = 0 \/ d.title = "" THEN 3000 - 2400
    ELSE Clamp(fixed_raw_score(d))

\* clean_article_content: ad, clickbait and fluff phrases removed in list order
clean_article_content(toks) ==
    LET stripped == StripPhrases(toks, AD_PHRASES \o CLICKBAIT_PHRASES \o FLUFF_PHRASES)
    IN [content |-> NormalizeSpace(stripped), modified |-> stripped # toks]

\* process_article with its deletes and its update made whatever args.dryrun
process_article_always_writing(article, id, all_articles, dry) ==
    LET d == detect_duplicate(article, id, all_articles)
        q == fixed_quality_score(article)
        c == clean_article_content(article.toks)
    IN IF d.dup
       THEN [is_duplicate |-> TRUE, low_quality |-> FALSE, cleaned |-> FALSE,
             deleted |-> TRUE, reason |-> d.reason, doc |-> Gone]
       ELSE IF q < QualityThresholdDefault
       THEN [is_duplicate |-> FALSE, low_quality |-> TRUE, cleaned |-> FALSE,
             deleted |-> TRUE, reason |-> "Quality score below threshold", doc |-> Gone]
       ELSE [is_duplicate |-> FALSE, low_quality |-> FALSE, cleaned |-> c.modified,
             deleted |-> FALSE, reason |-> "",
             doc |-> IF c.modified THEN [article EXCEPT !.toks = c.content] ELSE article]

\* process_article: the result dict and the write it makes (none on a dry run)
process_article(article, id, all_articles, dry) ==
    LET d == detect_duplicate(article, id, all_articles)
        q == fixed_quality_score(article)
        c == clean_article_content(article.toks)
    IN IF d.dup
       THEN [is_duplicate |-> TRUE, low_quality |-> FALSE, cleaned |-> FALSE,
             deleted |-> ~dry, reason |-> d.reason,
             doc |-> IF dry THEN article ELSE Gone]
       ELSE IF q < QualityThresholdDefault
       THEN [is_duplicate |-> FALSE, low_quality |-> TRUE, cleaned |-> FALSE,
             deleted |-> ~dry, reason |-> "Quality score below threshold",
             doc |-> IF dry THEN article ELSE Gone]
       ELSE [is_duplicate |-> FALSE, low_quality |-> FALSE, cleaned |-> c.modified,
             deleted |-> FALSE, reason |-> "",
             doc |-> IF c.modified /\ ~dry
                     THEN [article EXCEPT !.toks = c.content] ELSE article]


----------------------------------------------------------------------------
(* A filter run *)

NoResult == [state |-> "none", verdict |-> "", seq |-> 0]
Started == Cardinality({j \in ItemIds : results[j].state # "none"})
ZeroStats == [processed |-> 0, filtered_out |-> 0, duplicates |-> 0, low_quality |-> 0,
              cleaned |-> 0, deleted |-> 0]

Present(st) == {i \in ItemIds : st[i].present}

FilterInit ==
    /\ impl \in {"content_filter", "content_filter_fixed"}
    /\ store \in [ItemIds -> RawDocs]
    \* urls, titles and topics are compared for equality only: the first document
    \* fixes which is which
    /\ store[1].url = "http://example-news.com/1"
    /\ store[1].title = "City council votes"
    /\ store[1].topic = "budget"
    /\ fphase = "idle"
    /\ runs = 0
    /\ articles = store
    /\ existing = {}
    /\ pending = {}
    /\ results = [i \in ItemIds |-> NoResult]
    /\ stats = ZeroStats
    /\ dryrun = FALSE
    /\ runlog = <<>>

FilterIdle ==
    /\ impl = "content_filter"
    /\ store = [i \in ItemIds |-> Gone]
    /\ fphase = "idle"
    /\ runs = 0
    /\ articles = store
    /\ existing = {}
    /\ pending = {}
    /\ results = [i \in ItemIds |-> NoResult]
    /\ stats = ZeroStats
    /\ dryrun = FALSE
    /\ runlog = <<>>

RunRecord(complete, batch) ==
    [impl |-> impl, dry |-> dryrun, before |-> articles, after |-> store,
     batch |-> batch, complete |-> complete, results |-> results, stats |-> stats,
     store_error |-> FALSE]

\* what a run that could not read the collection leaves behind: nothing was
\* processed and the process ended with status 1
FailedRun ==
    [impl |-> impl, dry |-> FALSE, before |-> store, after |-> store,
     batch |-> {}, complete |-> FALSE, results |-> [i \in ItemIds |-> NoResult],
     stats |-> ZeroStats, store_error |-> TRUE]

\* content_filter.py: the store cannot be reached; connect_to_mongodb logs the
\* failure and calls sys.exit(1)
LegacyConnectFails ==
    /\ impl = "content_filter"
    /\ fphase = "idle"
    /\ runs < MaxRuns
    /\ runs' = runs + 1
    /\ runlog' = Append(runlog, FailedRun)
    /\ UNCHANGED <<impl, store, fphase, articles, existing, pending, results, stats, dryrun>>
    /\ UNCHANGED <<rvars, tvars, pvars>>

\* content_filter_fixed.py: the ping at import fails with ConnectionFailure;
\* the script logs it and calls sys.exit(1)
FixedConnectFails ==
    /\ impl = "content_filter_fixed"
    /\ fphase = "idle"
    /\ runs < MaxRuns
    /\ runs' = runs + 1
    /\ runlog' = Append(runlog, FailedRun)
    /\ UNCHANGED <<impl, store, fphase, articles, existing, pending, results, stats, dryrun>>
    /\ UNCHANGED <<rvars, tvars, pvars>>

LegacyDuplicateReasons ==
    {"Duplicate: Exact URL match", "Duplicate: Exact title match",
     "Duplicate: Similar title", "Duplicate: Content similarity"}

\* process_content up to the loop: the batch is the unfiltered documents, the
\* comparison list the filtered ones
LegacyStart ==
    /\ impl = "content_filter"
    /\ fphase = "idle"
    /\ runs < MaxRuns
    /\ fphase' = "legacy"
    /\ runs' = runs + 1
    /\ articles' = store
    /\ pending' = {i \in Present(store) : ~store[i].filtered}
    /\ existing' = {store[i] : i \in {j \in Present(store) : store[j].filtered}}
    /\ results' = [i \in ItemIds |-> NoResult]
    /\ stats' = ZeroStats
    /\ dryrun' = FALSE
    /\ UNCHANGED <<impl, store, runlog>>
    /\ UNCHANGED <<rvars, tvars, pvars>>

LegacyBatch == {i \in Present(articles) : ~articles[i].filtered}

\* one iteration of `for item in cursor`
LegacyItem(i) ==
    /\ fphase = "legacy"
    /\ i \in pending
    /\ LET o == LegacyOutcome(articles[i], existing) IN
        /\ store' = [store EXCEPT ![i] = o.doc]
        /\ existing' = IF o.verdict = "accepted"
                       THEN existing \cup {[articles[i] EXCEPT !.toks = o.doc.toks]}
                       ELSE existing
        /\ results' = [results EXCEPT ![i] = [state |-> "done", verdict |-> o.verdict, seq |-> Started]]
        /\ stats' = [stats EXCEPT
                       !.processed = @ + 1,
                       !.filtered_out = @ + (IF o.verdict = "accepted" THEN 0 ELSE 1),
                       !.duplicates = @ + (IF o.verdict \in LegacyDuplicateReasons
                                           THEN 1 ELSE 0),
                       !.low_quality = @ + (IF o.verdict = "Low quality" THEN 1 ELSE 0),
                       !.cleaned = @ + (IF o.verdict = "accepted" THEN 1 ELSE 0)]
    /\ pending' = pending \ {i}
    /\ UNCHANGED <<impl, fphase, runs, articles, dryrun, runlog>>
    /\ UNCHANGED <<rvars, tvars, pvars>>

\* an exception raised while an item is processed (a store error, a None title)
\* leaves the loop and process_content; main() logs it and returns 1
LegacyItemRaises(i) ==
    /\ fphase = "legacy"
    /\ i \in pending
    /\ results' = [results EXCEPT ![i] = [state |-> "raised", verdict |-> "", seq |-> Started]]
    /\ runlog' = Append(runlog, [RunRecord(FALSE, LegacyBatch) EXCEPT !.results = results'])
    /\ fphase' = "idle"
    /\ pending' = {}
    /\ UNCHANGED <<impl, store, runs, articles, existing, stats, dryrun>>
    /\ UNCHANGED <<rvars, tvars, pvars>>

\* the loop ends: the statistics are logged and returned
LegacyFinish ==
    /\ fphase = "legacy"
    /\ pending = {}
    /\ runlog' = Append(runlog, RunRecord(TRUE, LegacyBatch))
    /\ fphase' = "idle"
    /\ UNCHANGED <<impl, store, runs, articles, existing, pending, results,
                   stats, dryrun>>
    /\ UNCHANGED <<rvars, tvars, pvars>>

\* filter_and_clean_content: the articles are read once and one task per article
\* is submitted to the pool
FixedStart(dry) ==
    /\ impl = "content_filter_fixed"
    /\ fphase = "idle"
    /\ runs < MaxRuns
    /\ fphase' = "fixed"
    /\ runs' = runs + 1
    /\ articles' = store
    /\ pending' = Present(store)
    /\ existing' = {}
    /\ results' = [i \in ItemIds |-> NoResult]
    /\ stats' = ZeroStats
    /\ dryrun' = dry
    /\ UNCHANGED <<impl, store, runlog>>
    /\ UNCHANGED <<rvars, tvars, pvars>>

FixedBatch == Present(articles)

\* the collection as it is now, re-read for every article
LiveArticles == [j \in Present(store) |-> store[j]]

\* `articles = list(content_collection.find())`, handed to every task
FixedArticles == [j \in FixedBatch |-> articles[j]]

FixedVerdict(r) ==
    IF r.is_duplicate \/ r.low_quality THEN r.reason
    ELSE IF r.cleaned THEN "cleaned" ELSE "kept"

\* a pool worker runs process_article(article, articles); the workers run
\* concurrently and each writes its own document only
FixedItem(i) ==
    /\ fphase = "fixed"
    /\ i \in pending
    /\ LET r == process_article(articles[i], i, FixedArticles, dryrun) IN
        /\ store' = [store EXCEPT ![i] = IF store[i].present THEN r.doc ELSE store[i]]
        /\ results' = [results EXCEPT ![i] =
                          [state |-> "done", verdict |-> FixedVerdict(r), seq |-> 0]]
    /\ pending' = pending \ {i}
    /\ UNCHANGED <<impl, fphase, runs, articles, existing, stats, dryrun, runlog>>
    /\ UNCHANGED <<rvars, tvars, pvars>>

\* process_article raises (the store write fails): the future holds the exception
FixedItemRaises(i) ==
    /\ fphase = "fixed"
    /\ i \in pending
    /\ results' = [results EXCEPT ![i] = [state |-> "raised", verdict |-> "", seq |-> 0]]
    /\ pending' = pending \ {i}
    /\ UNCHANGED <<impl, store, fphase, runs, articles, existing, stats, dryrun, runlog>>
    /\ UNCHANGED <<rvars, tvars, pvars>>

IsDup(v) == v \in {"Exact URL match", "Similar content"}
IsLow(v) == v = "Quality score below threshold"

\* the futures the main thread's loop reads before one re-raises: the futures
\* are read in submission order
Collected == {i \in FixedBatch : \A j \in FixedBatch : j <= i => results[j].state = "done"}

\* counters that lose an increment when two results arrive together
CollectedStatsLosingUpdates ==
    [processed   |-> Min(1, Cardinality(Collected)),
     filtered_out |-> 0,
     duplicates  |-> Min(1, Cardinality({i \in Collected : IsDup(results[i].verdict)})),
     low_quality |-> Min(1, Cardinality({i \in Collected : IsLow(results[i].verdict)})),
     cleaned     |-> Min(1, Cardinality({i \in Collected : results[i].verdict = "cleaned"})),
     deleted     |-> Min(1, Cardinality({i \in Collected : /\ ~dryrun
                                                           /\ \/ IsDup(results[i].verdict)
                                                              \/ IsLow(results[i].verdict)}))]

\* the counters of `for future in futures: result = future.result()`
CollectedStats ==
    [processed   |-> Cardinality(Collected),
     filtered_out |-> 0,
     duplicates  |-> Cardinality({i \in Collected : IsDup(results[i].verdict)}),
     low_quality |-> Cardinality({i \in Collected : IsLow(results[i].verdict)}),
     cleaned     |-> Cardinality({i \in Collected : results[i].verdict = "cleaned"}),
     deleted     |-> Cardinality({i \in Collected : /\ ~dryrun
                                                    /\ \/ IsDup(results[i].verdict)
                                                       \/ IsLow(results[i].verdict)})]

\* future.result() re-raises a worker's exception: the loop is left, the
\* executor's with-block waits for the tasks still running, and the exception
\* leaves filter_and_clean_content: no summary, sys.exit(1)
FixedAbort ==
    /\ fphase = "fixed"
    /\ pending = {}
    /\ \E i \in FixedBatch : results[i].state = "raised"
    /\ stats' = CollectedStats
    /\ runlog' = Append(runlog, [RunRecord(FALSE, FixedBatch) EXCEPT !.stats = stats'])
    /\ fphase' = "idle"
    /\ UNCHANGED <<impl, store, runs, articles, existing, pending, results, dryrun>>
    /\ UNCHANGED <<rvars, tvars, pvars>>

\* every future was read: the summary is logged
FixedFinish ==
    /\ fphase = "fixed"
    /\ pending = {}
    /\ \A i \in FixedBatch : results[i].state = "done"
    /\ stats' = CollectedStats
    /\ runlog' = Append(runlog, [RunRecord(TRUE, FixedBatch) EXCEPT !.stats = stats'])
    /\ fphase' = "idle"
    /\ UNCHANGED <<impl, store, runs, articles, existing, pending, results, dryrun>>
    /\ UNCHANGED <<rvars, tvars, pvars>>

FilterNext ==
    \/ LegacyStart
    \/ \E i \in ItemIds : LegacyItem(i)
    \/ \E i \in ItemIds : LegacyItemRaises(i)
    \/ LegacyFinish
    \/ \E dry \in BOOLEAN : FixedStart(dry)
    \/ \E i \in ItemIds : FixedItem(i)
    \/ \E i \in ItemIds : FixedItemRaises(i)
    \/ FixedAbort
    \/ FixedFinish
    \/ LegacyConnectFails
    \/ FixedConnectFails


----------------------------------------------------------------------------
(* The recommendation engines: data *)

Users == {"1", "2"}
MaxLimit == 2

\* mock_content: the module-level list both engines fall back to.  `kw` is the
\* keyword score of the item against the mock keywords of user "1", `age` its
\* age in hours
MockContent ==
    << [id |-> "mock1", category |-> "Tech", source |-> "TechCrunch",
        upvotes |-> 45, downvotes |-> 5, comments |-> 12, age |-> 2, kw |-> 0,
        votes_ok |-> TRUE],
       [id |-> "mock2", category |-> "Business", source |-> "Financial Times",
        upvotes |-> 28, downvotes |-> 3, comments |-> 8, age |-> 5, kw |-> 243,
        votes_ok |-> TRUE],
       [id |-> "mock3", category |-> "Sports", source |-> "Sports Network",
        upvotes |-> 67, downvotes |-> 9, comments |-> 25, age |-> 8, kw |-> 0,
        votes_ok |-> TRUE],
       [id |-> "mock4", category |-> "Health", source |-> "Health Journal",
        upvotes |-> 52, downvotes |-> 2, comments |-> 15, age |-> 12, kw |-> 0,
        votes_ok |-> TRUE],
       [id |-> "mock5", category |-> "Entertainment", source |-> "Entertainment Weekly",
        upvotes |-> 37, downvotes |-> 6, comments |-> 10, age |-> 18, kw |-> 0,
        votes_ok |-> TRUE] >>

\* mock_interactions of ml_recommendation_engine.py (rating 0: no rating; `at`:
\* the place of the interaction in the list the engine iterates)
MLMockInteractions ==
    { [user |-> "1", content |-> "mock1", type |-> "view", rating |-> 1, at |-> 1],
      [user |-> "1", content |-> "mock2", type |-> "click", rating |-> 0, at |-> 2],
      [user |-> "1", content |-> "mock3", type |-> "view", rating |-> -1, at |-> 3] }

\* mock_interactions of recommendation_engine.py
HeuristicMockInteractions ==
    { [user |-> "1", content |-> "mock1", type |-> "view", rating |-> 0, at |-> 1],
      [user |-> "1", content |-> "mock2", type |-> "click", rating |-> 0, at |-> 2] }

\* the documents the content collection may hold, newest first; votes_ok is
\* FALSE when `upvotes` was stored as text
DbCorpora ==
    {<<>>} \cup
    { <<a, b>> :
        a \in [id : {"db1"}, category : {"Tech"}, source : {"Reuters"}, upvotes : {12},
               downvotes : {0}, comments : {0}, age : {2}, kw : {0}, votes_ok : BOOLEAN],
        b \in [id : {"db2"}, category : {"Tech", "Sports"}, source : {"Blog"},
               upvotes : {3}, downvotes : {0}, comments : {0}, age : {30}, kw : {0},
               votes_ok : {TRUE}] }

DbInteractionChoices ==
    { [user |-> "1", content |-> "db1", type |-> "view", rating |-> 1, at |-> 1],
      [user |-> "1", content |-> "db1", type |-> "view", rating |-> -1, at |-> 2],
      [user |-> "2", content |-> "db2", type |-> "click", rating |-> -1, at |-> 3] }

\* the preferences objects a caller may build: `weights` a dict of numbers, a
\* list, or a dict whose "Tech" value is text
CallerPrefsChoices ==
    { [shape |-> "dict", weights |-> ("General" :> 50) @@ ("Sports" :> 80)],
      [shape |-> "list", weights |-> <<>>],
      [shape |-> "text", weights |-> ("General" :> 50)] }

\* how the preferences reach recommend: not given, the JSON text of the caller's
\* preferences, a text that is not JSON, or the preferences object itself
PrefForms == {"none", "json", "malformed", "object"}

\* math.exp(-0.03 * age_hours), in thousandths
Freshness(age) ==
    CASE age = 2 -> 942 [] age = 5 -> 861 [] age = 8 -> 787 [] age = 12 -> 698
      [] age = 18 -> 583 [] OTHER -> 407

\* dict.get(key, default)
Get(w, k, default) == IF k \in DOMAIN w THEN w[k] ELSE default

\* sorted(rows, key=score, reverse=True): stable
RECURSIVE SortByScore(_)
SortByScore(rows) ==
    IF rows = <<>> THEN <<>>
    ELSE LET rest == SortByScore(Tail(rows))
             h == Head(rows)
             k == Cardinality({i \in 1..Len(rest) : rest[i].score > h.score})
         IN SubSeq(rest, 1, k) \o <<h>> \o SubSeq(rest, k + 1, Len(rest))

Ids(rows) == [k \in DOMAIN rows |-> rows[k].id]

\* a fallback that returns the whole mock content
MockFallbackUncut(limit) == Ids(MockContent)

\* the mock recommendations every fallback path builds
MockFallback(limit) == Ids(SubSeq(MockContent, 1, Min(limit, Len(MockContent))))

----------------------------------------------------------------------------
(* ml_recommendation_engine.py *)

DefaultPreferences ==
    [shape |-> "dict",
     weights |-> ("General" :> 50) @@ ("Tech" :> 60) @@ ("Business" :> 50)
                 @@ ("Sports" :> 40) @@ ("Entertainment" :> 50) @@ ("Health" :> 50)]

\* get_user_preferences: json.loads of the argument; only JSONDecodeError is
\* caught, so an argument that is no text raises TypeError
get_user_preferences(form, original) ==
    CASE form = "none" -> [raised |-> FALSE, prefs |-> DefaultPreferences]
      [] form = "malformed" -> [raised |-> FALSE, prefs |-> DefaultPreferences]
      [] form = "json" -> [raised |-> FALSE, prefs |-> original]
      [] OTHER -> [raised |-> TRUE, prefs |-> DefaultPreferences]

\* get_user_interactions: without the database, the mock interactions whoever asks
get_user_interactions(u) ==
    IF mongo THEN {i \in user_interactions : i.user = u} ELSE MLMockInteractions

\* get_content_items: the mock content when the collection is empty or unreachable
get_content_items ==
    IF mongo /\ content_collection # <<>> THEN content_collection ELSE MockContent

ItemsOf(seq) == {seq[k] : k \in DOMAIN seq}

\* the weight of an interaction, doubled: click 1.5, thumbs up 3, thumbs down -1, else 1
InteractionWeight(i) ==
    IF i.type = "click" THEN 3
    ELSE IF i.rating = 1 THEN 6
    ELSE IF i.rating = -1 THEN -2 ELSE 2

RECURSIVE SumWeight(_)
SumWeight(S) ==
    IF S = {} THEN 0
    ELSE LET i == CHOOSE x \in S : TRUE IN InteractionWeight(i) + SumWeight(S \ {i})

\* user_category_preferences[cat] and user_source_preferences[src]
CategoryPreference(ints, all, cat) ==
    SumWeight({i \in ints : \E c \in ItemsOf(all) : c.id = i.content /\ c.category = cat})
SourcePreference(ints, all, src) ==
    SumWeight({i \in ints : \E c \in ItemsOf(all) : c.id = i.content /\ c.source = src})

\* model.predict for a candidate, in thousandths: the booster's output is a table
Predict(c) ==
    CASE c.id = "mock1" -> 800 [] c.id = "mock2" -> 500 [] c.id = "mock3" -> 300
      [] c.id = "mock4" -> 900 [] c.id = "mock5" -> 200 [] OTHER -> 700

\* the diversity loop: at most three items of a category once 80% of the limit
\* is filled; it stops as soon as `limit` items are picked
RECURSIVE DiversityLoop(_, _, _, _)
DiversityLoop(sorted, k, picked, limit) ==
    IF k > Len(sorted) THEN picked
    ELSE LET item == sorted[k]
             seen == Cardinality({j \in DOMAIN picked : picked[j].category = item.category})
         IN IF seen < 3 \/ 10 * Len(picked) < 8 * limit
            THEN IF Len(picked) + 1 >= limit THEN Append(picked, item)
                 ELSE DiversityLoop(sorted, k + 1, Append(picked, item), limit)
            ELSE DiversityLoop(sorted, k + 1, picked, limit)

\* the loop alone, nothing added when it picked too few
DiversifyOnePass(sorted, limit) == DiversityLoop(sorted, 1, <<>>, limit)

\* the loop, then the highest-scored items left over if it picked too few
Diversify(sorted, limit) ==
    LET picked == DiversityLoop(sorted, 1, <<>>, limit)
        rest == SelectSeq(sorted, LAMBDA r : \A j \in DOMAIN picked : picked[j] # r)
    IN IF Len(picked) < limit
       THEN picked \o SubSeq(rest, 1, Min(limit - Len(picked), Len(rest)))
       ELSE picked


Raised(e) == [outcome |-> "raised", path |-> "", items |-> <<>>, error |-> e, keys |-> <<>>]

\* the list returned: every entry is a dict with a 'content' and a 'reason'
Returned(path, items) ==
    [outcome |-> "returned", path |-> path, items |-> items, error |-> "",
     keys |-> [k \in DOMAIN items |-> {"content", "reason"}]]

\* the variant of stage 1 that never filters
generate_all_candidates(all, ints, weights) ==
    [filtering |-> FALSE, top_categories |-> {}, top_sources |-> {},
     candidates |-> SelectSeq(all, LAMBDA c : c.id \notin {i.content : i \in ints})]

\* stage 1 of recommend, candidate generation, over the content window `all`,
\* the user's interactions and the weights of the preferences.
\* Counter.most_common(3): the three largest weights, equal weights in the
\* order the keys were first counted
generate_candidates(all, ints, weights) ==
    LET interacted == {i.content : i \in ints}
        found == {i \in ints : \E c \in ItemsOf(all) : c.id = i.content}
        ItemOf(i) == CHOOSE c \in ItemsOf(all) : c.id = i.content
        FirstAt(S) == CHOOSE a \in {i.at : i \in S} : \A i \in S : a <= i.at
        cats == {ItemOf(i).category : i \in found}
        srcs == {ItemOf(i).source : i \in found}
        CatFirst == [cat \in cats |-> FirstAt({i \in found : ItemOf(i).category = cat})]
        SrcFirst == [src \in srcs |-> FirstAt({i \in found : ItemOf(i).source = src})]
        CatW == [cat \in cats |-> CategoryPreference(ints, all, cat)]
        SrcW == [src \in srcs |-> SourcePreference(ints, all, src)]
        common_cats ==
            {k \in cats :
                Cardinality({j \in cats : \/ CatW[j] > CatW[k]
                                          \/ CatW[j] = CatW[k] /\ CatFirst[j] < CatFirst[k]}) < 3}
        common_srcs ==
            {k \in srcs :
                Cardinality({j \in srcs : \/ SrcW[j] > SrcW[k]
                                          \/ SrcW[j] = SrcW[k] /\ SrcFirst[j] < SrcFirst[k]}) < 3}
        top_sources == {src \in common_srcs : SrcW[src] > 0}
        top_categories ==
            {cat \in common_cats : CatW[cat] > 0}
                \cup {cat \in DOMAIN weights : weights[cat] > 55}
        filtering == top_categories # {} \/ top_sources # {}
    IN [filtering |-> filtering, top_categories |-> top_categories,
        top_sources |-> top_sources,
        candidates |->
            IF filtering
            THEN SelectSeq(all, LAMBDA c :
                     /\ c.id \notin interacted
                     /\ \/ c.category \in top_categories \/ c.source \in top_sources
                        \/ c.age < 12 /\ c.upvotes > 10)
            ELSE SelectSeq(all, LAMBDA c : c.id \notin interacted)]

\* recommend of ml_recommendation_engine.py.  model: "no_ml" the ML libraries are
\* missing, "none" train_model gave no model (or raised), "broken" predict raises
ml_recommend(u, form, limit, model, original) ==
    LET gp == get_user_preferences(form, original)
        ints == get_user_interactions(u)
        interacted == {i.content : i \in ints}
        all == get_content_items
        stage1 == generate_candidates(all, ints, gp.prefs.weights)
        filtering == stage1.filtering
        Matches(c) == c.category \in stage1.top_categories \/ c.source \in stage1.top_sources
        candidates == stage1.candidates
        rows == [k \in DOMAIN candidates |->
                    [id |-> candidates[k].id, category |-> candidates[k].category,
                     score |-> Predict(candidates[k])]]
        ranked == SortByScore(rows)
        chosen == IF Len(ranked) > limit THEN Diversify(ranked, limit) ELSE ranked
    IN IF model = "no_ml" THEN Returned("no_ml", <<>>)
       ELSE IF gp.raised THEN Raised("TypeError")
       ELSE IF model = "none" THEN Returned("no_model", MockFallback(limit))
       \* `for category, weight in user_prefs.get('weights', {}).items()`
       ELSE IF gp.prefs.shape = "list" THEN Raised("AttributeError")
       ELSE IF gp.prefs.shape = "text" THEN Raised("TypeError")
       \* int(content.get('upvotes', 0)) of an item that matches no preference
       ELSE IF filtering /\ \E c \in ItemsOf(all) :
                               c.id \notin interacted /\ ~Matches(c) /\ ~c.votes_ok
       THEN Raised("ValueError")
       \* inside the try: one candidate's features fail, every candidate is dropped
       ELSE IF \E c \in ItemsOf(candidates) : ~c.votes_ok
       THEN Returned("error", MockFallback(limit))
       ELSE IF candidates = <<>> THEN Returned("no_candidates", MockFallback(limit))
       ELSE IF model = "broken" THEN Returned("error", MockFallback(limit))
       ELSE Returned("ranked", Ids(SubSeq(chosen, 1, Min(limit, Len(chosen)))))

RECURSIVE SumAbsPreference(_, _, _)
SumAbsPreference(ints, all, cats) ==
    IF cats = {} THEN 0
    ELSE LET cat == CHOOSE c \in cats : TRUE
             w == CategoryPreference(ints, all, cat)
         IN (IF w < 0 THEN -w ELSE w) + SumAbsPreference(ints, all, cats \ {cat})

\* row['user_category_pref'] in thousandths: the signed weight of the category
\* in the user's history over the total absolute weight; when that is 0, the
\* weight of the preferences (default 50) over 100
user_category_pref(u, prefs, c) ==
    LET ints == get_user_interactions(u)
        all == get_content_items
        total == SumAbsPreference(ints, all, {x.category : x \in ItemsOf(all)})
        history == (1000 * CategoryPreference(ints, all, c.category))
                       \div (IF total = 0 THEN 1 ELSE total)
    IN IF history # 0 THEN history ELSE 10 * Get(prefs.weights, c.category, 50)

\* the score and component_scores of a ranked item, in thousandths
ml_scores(u, prefs, c) ==
    LET total_votes == c.upvotes + c.downvotes IN
    [id |-> c.id,
     score |-> Predict(c),
     category_match |-> user_category_pref(u, prefs, c),
     recency |-> Freshness(c.age),
     popularity |-> (c.upvotes * Min(1000, 50 * total_votes)) \div Max(1, total_votes),
     engagement |-> Min(1000, 50 * c.comments)]

\* the rows recommend has scored for the items it returns on the ranked path
ml_components(u, form, original, res) ==
    IF res.outcome = "returned" /\ res.path = "ranked"
    THEN [k \in DOMAIN res.items |->
             ml_scores(u, get_user_preferences(form, original).prefs,
                       CHOOSE c \in ItemsOf(get_content_items) \cup ItemsOf(MockContent) :
                           c.id = res.items[k])]
    ELSE <<>>

----------------------------------------------------------------------------
(* recommendation_engine.py *)

DefaultRatingWeight == 50

\* get_user_interests, the categories: mock interests for user "1" without the
\* database, else the share of each category among the documents interacted with
get_user_interests(u) ==
    IF ~mongo
    THEN IF u = "1" THEN ("Tech" :> 90) @@ ("Business" :> 60) @@ ("Sports" :> 30)
         ELSE [x \in {} |-> 0]
    ELSE LET ids == {i.content : i \in {x \in user_interactions : x.user = u}}
             docs == {c \in ItemsOf(content_collection) : c.id \in ids}
             Count(cat) == Cardinality({c \in docs : c.category = cat})
             cats == {c.category : c \in docs}
             most == CHOOSE m \in {Count(cat) : cat \in cats} :
                         \A cat \in cats : Count(cat) <= m
         IN [cat \in cats |-> (Count(cat) * 100) \div most]

\* the keyword score in thousandths: the mock keywords of user "1" against the
\* mock texts; with the database, the user's keywords are the words of the
\* documents interacted with, and the bounded texts share no word
KeywordScore(c, u) ==
    IF ~mongo THEN (IF u = "1" THEN c.kw ELSE 0)
    ELSE IF /\ c \in ItemsOf(content_collection)
            /\ \E i \in user_interactions : i.user = u /\ i.content = c.id
         THEN 1000 ELSE 0

\* calculate_rating_score over get_content_ratings, in thousandths: without the
\* database the ratings are random.randint draws, with it the documents' counts
RatingScore(c, draw) ==
    IF ~mongo THEN (IF draw = "lift5" /\ c.id = "mock5" THEN 828 ELSE 308)
    ELSE IF c \notin ItemsOf(content_collection) THEN 300
    ELSE IF c.id = "db1" THEN 581 ELSE 360

\* recommend of recommendation_engine.py; `given`: the preferences argument is
\* a dict (prefs), else the default weights {'General': 50} are used
heuristic_recommend(u, given, prefs, limit, draw) ==
    LET shape == IF given THEN prefs.shape ELSE "dict"
        weights == IF given THEN prefs.weights ELSE ("General" :> 50)
        interests == get_user_interests(u)
        \* weights[category] = max(weights.get(category, 0), weight): "Tech" comes
        \* first among the interests whenever it is one
        merge_raises == /\ DOMAIN interests # {}
                        /\ \/ shape = "list"
                           \/ shape = "text" /\ "Tech" \in DOMAIN interests
        merged == [cat \in DOMAIN weights \cup DOMAIN interests |->
                      IF cat \in DOMAIN interests
                      THEN Max(Get(weights, cat, 0), interests[cat])
                      ELSE weights[cat]]
        contents == IF mongo /\ content_collection # <<>> THEN content_collection
                    ELSE MockContent
        ItemRaises(c) == \/ shape = "list"
                         \/ shape = "text" /\ c.category = "Tech"
                         \/ mongo /\ ~c.votes_ok
        scored == {k \in DOMAIN contents : \A j \in 1..k : ~ItemRaises(contents[j])}
        \* the final score in millionths, the score components in thousandths
        rows == [k \in DOMAIN contents |->
                    [id |-> contents[k].id, category |-> contents[k].category,
                     score |-> (100 - DefaultRatingWeight)
                                  * (5 * 10 * Get(merged, contents[k].category, 0)
                                     + 3 * Freshness(contents[k].age)
                                     + 2 * KeywordScore(contents[k], u))
                               + DefaultRatingWeight * 10 * RatingScore(contents[k], draw),
                     category_score |-> 10 * Get(merged, contents[k].category, 0),
                     freshness |-> Freshness(contents[k].age),
                     keywords |-> KeywordScore(contents[k], u),
                     rating |-> RatingScore(contents[k], draw)]]
        ranked == SortByScore(rows)
        after == IF given /\ ~merge_raises /\ shape # "list"
                 THEN [prefs EXCEPT !.weights = merged] ELSE prefs
        touched == IF contents = MockContent /\ ~merge_raises
                   THEN {contents[k].id : k \in scored} ELSE {}
    IN IF merge_raises
       THEN [outcome |-> "raised", items |-> <<>>,
             error |-> IF shape = "list" THEN "AttributeError" ELSE "TypeError",
             prefs_after |-> prefs, touched |-> {}, components |-> <<>>, keys |-> <<>>]
       ELSE IF \E k \in DOMAIN contents : ItemRaises(contents[k])
       THEN [outcome |-> "raised", items |-> <<>>,
             error |-> IF shape = "list" THEN "AttributeError" ELSE "TypeError",
             prefs_after |-> after, touched |-> touched, components |-> <<>>,
             keys |-> <<>>]
       ELSE [outcome |-> "returned",
             items |-> Ids(SubSeq(ranked, 1, Min(limit, Len(ranked)))),
             error |-> "", prefs_after |-> after, touched |-> touched,
             components |-> SubSeq(ranked, 1, Min(limit, Len(ranked))),
             keys |-> [k \in 1..Min(limit, Len(ranked)) |-> {"content", "reason"}]]

----------------------------------------------------------------------------
(* Recommend calls made one after another in one process *)

NoCall(prefs) ==
    [engine |-> "none", user |-> "", form |-> "none", limit |-> 0, model |-> "", draw |-> "",
     outcome |-> "", path |-> "", items |-> <<>>, error |-> "",
     prefs_before |-> prefs, prefs_after |-> prefs, stats_before |-> {}, touched |-> {},
     components |-> <<>>, keys |-> <<>>]

RecommendIdle ==
    /\ mongo = FALSE
    /\ content_collection = <<>>
    /\ user_interactions = {}
    /\ caller_original = [shape |-> "dict", weights |-> ("General" :> 50)]
    /\ caller_prefs = caller_original
    /\ mock_rating_stats = {}
    /\ last = NoCall(caller_original)

RecommendInit ==
    /\ mongo \in BOOLEAN
    /\ content_collection \in (IF mongo THEN DbCorpora ELSE {<<>>})
    /\ user_interactions \in (IF mongo THEN SUBSET DbInteractionChoices ELSE {{}})
    /\ caller_original \in CallerPrefsChoices
    /\ caller_prefs = caller_original
    /\ mock_rating_stats = {}
    /\ last = NoCall(caller_original)

\* recommend(user_id, preferences, limit) of ml_recommendation_engine.py: it
\* writes to nothing the next call reads, so that a call made right after
\* another call of this engine reaches no state the first could not reach
MLRecommend(u, form, limit, model) ==
    /\ last.engine # "ml"
    /\ LET res == ml_recommend(u, form, limit, model, caller_original) IN
        last' = res
               @@ [engine |-> "ml", user |-> u, form |-> form, limit |-> limit,
                   model |-> model, draw |-> "",
                   prefs_before |-> caller_prefs, prefs_after |-> caller_prefs,
                   stats_before |-> mock_rating_stats, touched |-> {},
                   components |-> ml_components(u, form, caller_original, res)]
    /\ UNCHANGED <<mongo, content_collection, user_interactions, caller_original,
                   caller_prefs, mock_rating_stats>>
    /\ UNCHANGED <<fvars, tvars, pvars>>

\* recommend(user_id, preferences, limit) of recommendation_engine.py; `weights`
\* is the caller's own dict when the preferences object is passed, and the mock
\* items scored get a rating_stats entry
HeuristicRecommend(u, form, limit, draw) ==
    /\ last' = heuristic_recommend(u, form = "object", caller_prefs, limit, draw)
               @@ [engine |-> "heuristic", user |-> u, form |-> form, limit |-> limit,
                   model |-> "", draw |-> draw, path |-> "",
                   prefs_before |-> caller_prefs, stats_before |-> mock_rating_stats]
    /\ caller_prefs' = last'.prefs_after
    /\ mock_rating_stats' = mock_rating_stats \cup last'.touched
    /\ UNCHANGED <<mongo, content_collection, user_interactions, caller_original>>
    /\ UNCHANGED <<fvars, tvars, pvars>>

RecommendNext ==
    \/ \E u \in Users, form \in PrefForms, limit \in 0..MaxLimit,
          model \in {"no_ml", "none", "ok", "broken"} :
           MLRecommend(u, form, limit, model)
    \/ \E u \in Users, form \in PrefForms, limit \in 0..MaxLimit,
          draw \in {"flat", "lift5"} :
           HeuristicRecommend(u, form, limit, draw)

----------------------------------------------------------------------------
(* train_model calls of concurrent requests over the model directory *)

Procs == {"p1", "p2"}
MaxTrainings == 2

SavePhases == {"save_model", "save_encoders", "save_importance"}

NoModel == [src |-> "none", model |-> 0, encoders |-> 0, importance |-> 0]

\* what a request's train_model call has done so far: `fresh` is what the check
\* of lines 585-587 found
NotCalled ==
    [started |-> FALSE, force |-> FALSE, fresh |-> FALSE, load_failed |-> FALSE,
     prepared |-> 0, trained |-> 0, wrote |-> 0, returned |-> FALSE]

TrainIdle ==
    /\ model_file = 0
    /\ encoders_file = 0
    /\ importance_file = 0
    /\ model_fresh = FALSE
    /\ next_version = 2
    /\ pc = [p \in Procs |-> "idle"]
    /\ mine = [p \in Procs |-> 0]
    /\ got = [p \in Procs |-> NoModel]
    /\ calls = [p \in Procs |-> NotCalled]

\* no model yet, or the three files of training 1, less or more than 24 hours old
TrainInit ==
    /\ model_file \in {0, 1}
    /\ encoders_file = model_file
    /\ importance_file = model_file
    /\ model_fresh \in (IF model_file = 0 THEN {FALSE} ELSE BOOLEAN)
    /\ next_version = 2
    /\ pc = [p \in Procs |-> "idle"]
    /\ mine = [p \in Procs |-> 0]
    /\ got = [p \in Procs |-> NoModel]
    /\ calls = [p \in Procs |-> NotCalled]

\* train_model(force) loading whatever model file exists, however old
TrainModelCallAnyAge(p, force) ==
    /\ pc[p] = "idle"
    /\ LET loads == ~force /\ model_file # 0 IN
        /\ loads \/ next_version - 2 < MaxTrainings
        /\ pc' = [pc EXCEPT ![p] = IF loads THEN "load_model" ELSE "training"]
    /\ got' = [got EXCEPT ![p] = NoModel]
    /\ calls' = [calls EXCEPT ![p] =
                    [NotCalled EXCEPT !.started = TRUE, !.force = force,
                                      !.fresh = (model_file # 0 /\ model_fresh)]]
    /\ UNCHANGED <<model_file, encoders_file, importance_file, model_fresh, next_version,
                   mine>>
    /\ UNCHANGED <<fvars, rvars, pvars>>

\* train_model(force): `if not force and os.path.exists(MODEL_PATH)` and the
\* model is less than 24 hours old, load it; else train
TrainModelCall(p, force) ==
    /\ pc[p] = "idle"
    /\ LET loads == ~force /\ model_file # 0 /\ model_fresh IN
        /\ loads \/ next_version - 2 < MaxTrainings
        /\ pc' = [pc EXCEPT ![p] = IF loads THEN "load_model" ELSE "training"]
    /\ got' = [got EXCEPT ![p] = NoModel]
    /\ calls' = [calls EXCEPT ![p] =
                    [NotCalled EXCEPT !.started = TRUE, !.force = force,
                                      !.fresh = (model_file # 0 /\ model_fresh)]]
    /\ UNCHANGED <<model_file, encoders_file, importance_file, model_fresh, next_version,
                   mine>>
    /\ UNCHANGED <<fvars, rvars, pvars>>

\* lgb.Booster(model_file=MODEL_PATH)
LoadModel(p) ==
    /\ pc[p] = "load_model"
    /\ got' = [got EXCEPT ![p].model = model_file]
    /\ pc' = [pc EXCEPT ![p] = "load_encoders"]
    /\ UNCHANGED <<model_file, encoders_file, importance_file, model_fresh, next_version,
                   mine, calls>>
    /\ UNCHANGED <<fvars, rvars, pvars>>

\* label_encoders.json, when it exists; else the model is returned without encoders
LoadEncoders(p) ==
    /\ pc[p] = "load_encoders"
    /\ IF encoders_file # 0
       THEN /\ got' = [got EXCEPT ![p].encoders = encoders_file]
            /\ pc' = [pc EXCEPT ![p] = "load_importance"]
       ELSE /\ got' = [got EXCEPT ![p].src = "loaded"]
            /\ pc' = [pc EXCEPT ![p] = "idle"]
    /\ calls' = [calls EXCEPT ![p].returned = (encoders_file = 0)]
    /\ UNCHANGED <<model_file, encoders_file, importance_file, model_fresh, next_version,
                   mine>>
    /\ UNCHANGED <<fvars, rvars, pvars>>

\* feature_importance.json, when it exists; `return model, label_encoders`
LoadImportance(p) ==
    /\ pc[p] = "load_importance"
    /\ got' = [got EXCEPT ![p].importance = importance_file, ![p].src = "loaded"]
    /\ pc' = [pc EXCEPT ![p] = "idle"]
    /\ calls' = [calls EXCEPT ![p].returned = TRUE]
    /\ UNCHANGED <<model_file, encoders_file, importance_file, model_fresh, next_version,
                   mine>>
    /\ UNCHANGED <<fvars, rvars, pvars>>

\* loading raises (an unreadable file): `except Exception` logs it and
\* train_model goes on to train a new model
LoadFails(p) ==
    /\ pc[p] \in {"load_model", "load_encoders", "load_importance"}
    /\ next_version - 2 < MaxTrainings
    /\ got' = [got EXCEPT ![p] = NoModel]
    /\ calls' = [calls EXCEPT ![p].load_failed = TRUE]
    /\ pc' = [pc EXCEPT ![p] = "training"]
    /\ UNCHANGED <<model_file, encoders_file, importance_file, model_fresh, next_version,
                   mine>>
    /\ UNCHANGED <<fvars, rvars, pvars>>

\* prepare_training_data and lgb.train: a new model, not yet on disk
Train(p) ==
    /\ pc[p] = "training"
    /\ mine' = [mine EXCEPT ![p] = next_version]
    /\ next_version' = next_version + 1
    /\ got' = [got EXCEPT ![p] = [src |-> "trained", model |-> next_version,
                                  encoders |-> next_version, importance |-> next_version]]
    /\ pc' = [pc EXCEPT ![p] = "save_model"]
    /\ calls' = [calls EXCEPT ![p].prepared = @ + 1, ![p].trained = @ + 1]
    /\ UNCHANGED <<model_file, encoders_file, importance_file, model_fresh>>
    /\ UNCHANGED <<fvars, rvars, pvars>>

\* no training data, or training raises: (None, None)
TrainFails(p) ==
    /\ pc[p] = "training"
    /\ got' = [got EXCEPT ![p].src = "failed"]
    /\ pc' = [pc EXCEPT ![p] = "idle"]
    /\ calls' = [calls EXCEPT ![p].prepared = @ + 1, ![p].returned = TRUE]
    /\ UNCHANGED <<model_file, encoders_file, importance_file, model_fresh, next_version,
                   mine>>
    /\ UNCHANGED <<fvars, rvars, pvars>>

\* model.save_model(MODEL_PATH)
SaveModel(p) ==
    /\ pc[p] = "save_model"
    /\ model_file' = mine[p]
    /\ model_fresh' = TRUE
    /\ pc' = [pc EXCEPT ![p] = "save_encoders"]
    /\ calls' = [calls EXCEPT ![p].wrote = @ + 1]
    /\ UNCHANGED <<encoders_file, importance_file, next_version, mine, got>>
    /\ UNCHANGED <<fvars, rvars, pvars>>

\* json.dump(encoders_data, f)
SaveEncoders(p) ==
    /\ pc[p] = "save_encoders"
    /\ encoders_file' = mine[p]
    /\ pc' = [pc EXCEPT ![p] = "save_importance"]
    /\ calls' = [calls EXCEPT ![p].wrote = @ + 1]
    /\ UNCHANGED <<model_file, importance_file, model_fresh, next_version, mine, got>>
    /\ UNCHANGED <<fvars, rvars, pvars>>

\* json.dump(model.feature_importance_dict, f)
SaveImportance(p) ==
    /\ pc[p] = "save_importance"
    /\ importance_file' = mine[p]
    /\ pc' = [pc EXCEPT ![p] = "idle"]
    /\ calls' = [calls EXCEPT ![p].wrote = @ + 1, ![p].returned = TRUE]
    /\ UNCHANGED <<model_file, encoders_file, model_fresh, next_version, mine, got>>
    /\ UNCHANGED <<fvars, rvars, pvars>>

\* a write raises: `except Exception` logs it, the files still to write are not
\* written, and the model is returned
SaveFails(p) ==
    /\ pc[p] \in SavePhases
    /\ pc' = [pc EXCEPT ![p] = "idle"]
    /\ calls' = [calls EXCEPT ![p].returned = TRUE]
    /\ UNCHANGED <<model_file, encoders_file, importance_file, model_fresh, next_version,
                   mine, got>>
    /\ UNCHANGED <<fvars, rvars, pvars>>

\* 24 hours pass since the model file was written
ModelAges ==
    /\ model_file # 0
    /\ model_fresh
    /\ model_fresh' = FALSE
    /\ UNCHANGED <<model_file, encoders_file, importance_file, next_version, pc, mine, got, calls>>
    /\ UNCHANGED <<fvars, rvars, pvars>>

TrainNext ==
    \/ \E p \in Procs, force \in BOOLEAN : TrainModelCall(p, force)
    \/ \E p \in Procs : LoadModel(p)
    \/ \E p \in Procs : LoadEncoders(p)
    \/ \E p \in Procs : LoadImportance(p)
    \/ \E p \in Procs : LoadFails(p)
    \/ \E p \in Procs : Train(p)
    \/ \E p \in Procs : TrainFails(p)
    \/ \E p \in Procs : SaveModel(p)
    \/ \E p \in Procs : SaveEncoders(p)
    \/ \E p \in Procs : SaveImportance(p)
    \/ \E p \in Procs : SaveFails(p)
    \/ ModelAges

----------------------------------------------------------------------------
(* The diversity selection of ml_recommendation_engine.recommend on its own *)

DivCategories == {"Tech", "Sports"}
MaxCandidates == 11
MaxK == 10
MaxFeatures == 3

DiversityIdle ==
    /\ div_data = <<>>
    /\ div_limit = 0
    /\ div_result = <<>>

\* the candidates after prediction: candidate k has the k-th lowest score, so
\* that sorting reverses the list
DiversityInit ==
    /\ div_data \in
           { [k \in DOMAIN cats |-> [id |-> k, category |-> cats[k], score |-> 100 * k]] :
               cats \in UNION {[1..n -> DivCategories] : n \in 0..MaxCandidates} }
    /\ div_limit = 0
    /\ div_result = <<>>

\* lines 1304-1337: sort by score, apply the diversity rule when there are more
\* candidates than the limit, keep the first `limit`
SelectDiverse(data, limit) ==
    LET sorted_results == SortByScore(data)
        chosen == IF Len(sorted_results) > limit THEN Diversify(sorted_results, limit)
                  ELSE sorted_results
    IN SubSeq(chosen, 1, Min(limit, Len(chosen)))

DiversitySelect(limit) ==
    /\ div_limit = 0
    /\ div_limit' = limit
    /\ div_result' = SelectDiverse(div_data, limit)
    /\ UNCHANGED div_data
    /\ UNCHANGED <<fvars, rvars, tvars, qvars, evars, cand, refresh>>

----------------------------------------------------------------------------
(* The quality scoring of the two filters on its own *)

\* the items scored: title and content may be missing, the votes may be absent,
\* all in favour or all against; the content starts with no phrase, one or two
\* ad phrases, one or two clickbait phrases, a fluff phrase, or one of each
QualityDocs ==
    { [present |-> TRUE, url |-> o.url, title |-> title, topic |-> "weather",
       toks |-> toks, pad |-> pad, source |-> o.source, up |-> v.up, down |-> v.down,
       words |-> words, ease |-> ease, filtered |-> FALSE, reason |-> "", qscore |-> -1] :
      o \in { [url |-> "http://example-news.com/1", source |-> "Reuters"],
              [url |-> "http://example-news.com/1", source |-> "blog"],
              [url |-> "http://win.xyz/1", source |-> "blog"] },
      title \in {"", "City council votes", "You won't believe this amazing storm"},
      toks \in { <<>>,
                 <<"click", "here">>,
                 <<"click", "here", "sponsored", "content">>,
                 <<"amazing">>,
                 <<"amazing", "incredible">>,
                 <<"experts", "say">>,
                 <<"click", "here", "amazing", "experts", "say">> },
      pad \in {0, 10, 150, 990, 1100},
      v \in { [up |-> 0, down |-> 0], [up |-> 12, down |-> 0], [up |-> 0, down |-> 12] },
      words \in {4, 15, 30}, ease \in {20, 70} }

NotScored == [impl |-> "", computed |-> {}, written |-> {}, first |-> 0, second |-> 0]

QualityIdle ==
    /\ q_item = Gone
    /\ q_variant = Gone
    /\ q_scored = NotScored

QualityInit ==
    /\ q_item \in QualityDocs
    /\ q_variant = Gone
    /\ q_scored = NotScored

\* calculate_quality_score of either filter
quality_score(script, d) ==
    IF script = "content_filter" THEN legacy_quality_score(d) ELSE fixed_quality_score(d)

\* the quality_score values one pass of the filter over `d` writes to the store:
\* content_filter.py writes 0 for a content that is too short and the computed
\* score for the others, content_filter_fixed.py writes none
WrittenScores(script, d) ==
    IF script = "content_filter"
    THEN LET doc == LegacyOutcome(d, {}).doc IN IF doc.qscore = -1 THEN {} ELSE {doc.qscore}
    ELSE {}

\* a second item, identical to the first except that `phrase` is added to its
\* content; sentence length and reading ease are measured on the new content
InjectPhrases(phrases, words, ease) ==
    /\ q_item # Gone
    /\ q_variant = Gone
    /\ q_scored = NotScored
    /\ q_variant' = [q_item EXCEPT !.toks = @ \o phrases, !.words = words, !.ease = ease]
    /\ UNCHANGED <<q_item, q_scored>>
    /\ UNCHANGED <<fvars, rvars, tvars, dvars, evars, cand, refresh>>

\* the filter scores the item, and the second item if there is one
CalculateQualityScore(script) ==
    /\ q_item # Gone
    /\ q_scored = NotScored
    /\ q_scored' =
           LET both == IF q_variant = Gone THEN {q_item} ELSE {q_item, q_variant}
           IN [impl |-> script,
               computed |-> {quality_score(script, d) : d \in both},
               written |-> UNION {WrittenScores(script, d) : d \in both},
               first |-> quality_score(script, q_item),
               second |-> IF q_variant = Gone THEN quality_score(script, q_item)
                          ELSE quality_score(script, q_variant)]
    /\ UNCHANGED <<q_item, q_variant>>
    /\ UNCHANGED <<fvars, rvars, tvars, dvars, evars, cand, refresh>>

\* what is added to a content is one phrase of the two lexicons, or two
QualityNext ==
    \/ \E phrases \in {AD_PHRASES[k] : k \in DOMAIN AD_PHRASES}
                          \cup {CLICKBAIT_PHRASES[k] : k \in DOMAIN CLICKBAIT_PHRASES}
                          \cup { <<"buy", "now", "sponsored", "content">>,
                                 <<"buy", "now", "incredible">>,
                                 <<"incredible", "unbelievable">> },
          words \in {4, 15, 30}, ease \in {20, 70} :
           InjectPhrases(phrases, words, ease)
    \/ \E script \in {"content_filter", "content_filter_fixed"} :
           CalculateQualityScore(script)

----------------------------------------------------------------------------
(* generate_explanation of ml_recommendation_engine.py on its own *)

\* an explanation that gives one reason for every feature of the map, in order
\* of importance, whatever its contribution
explain_every_feature(content, score_details) ==
    LET sorted_importance == SortByScore(score_details.feature_importance) IN
    [opening |-> "Recommended because ",
     reasons |-> [k \in DOMAIN sorted_importance |->
                     [step |-> IF k = 1 THEN "primary" ELSE "secondary",
                      text |-> <<sorted_importance[k].name, "">>]]]

\* generate_explanation(content, score_details).  feature_importance is the
\* dict's items in insertion order, each [name, score]; a reason records the
\* step that appended it and the template chosen; the sentence is "Recommended
\* because " followed by the reasons
generate_explanation(content, score_details) ==
    LET sorted_importance == SortByScore(score_details.feature_importance)
        top_feature == IF sorted_importance # <<>> THEN sorted_importance[1]
                       ELSE [name |-> "category_match", score |-> 25]
        \* round(importance / 5) * 5 against the thresholds 70 and 40
        tier == IF 2 * top_feature.score >= 135 THEN "strong"
                ELSE IF 2 * top_feature.score >= 75 THEN "medium" ELSE "weak"
        primary ==
            CASE top_feature.name \in {"category_match", "recency"} ->
                    <<[step |-> "primary", text |-> <<top_feature.name, tier>>]>>
              [] top_feature.name = "popularity" ->
                    <<[step |-> "primary",
                       text |-> <<"popularity",
                                  IF content.upvotes > 50 THEN "strong"
                                  ELSE IF content.upvotes > 20 THEN "medium" ELSE "weak">>]>>
              [] top_feature.name = "engagement" ->
                    <<[step |-> "primary",
                       text |-> <<"engagement",
                                  IF content.comment_count > 20 THEN "strong"
                                  ELSE IF content.comment_count > 5 THEN "medium"
                                  ELSE "weak">>]>>
              [] OTHER -> <<>>
        Secondary(f) ==
            IF f.score < 10 \/ f.name = top_feature.name THEN <<>>
            ELSE CASE f.name = "category_match" ->
                         <<[step |-> "secondary", text |-> <<f.name, "preference">>]>>
                   [] f.name = "recency" ->
                         IF content.age_hours < 6
                         THEN <<[step |-> "secondary", text |-> <<f.name, "very recent">>]>>
                         ELSE IF content.age_hours < 24
                         THEN <<[step |-> "secondary", text |-> <<f.name, "today">>]>>
                         ELSE <<>>
                   [] f.name = "popularity" ->
                         IF content.upvotes > 0
                         THEN <<[step |-> "secondary", text |-> <<f.name, "upvotes">>]>>
                         ELSE <<>>
                   [] f.name = "engagement" ->
                         IF content.comment_count > 0
                         THEN <<[step |-> "secondary", text |-> <<f.name, "comments">>]>>
                         ELSE <<>>
                   [] OTHER -> <<>>
        after_secondary ==
            primary
            \o (IF Len(sorted_importance) > 1 THEN Secondary(sorted_importance[2]) ELSE <<>>)
            \o (IF Len(sorted_importance) > 2 THEN Secondary(sorted_importance[3]) ELSE <<>>)
        after_source ==
            IF content.source # "Unknown" /\ Len(after_secondary) < 3
            THEN Append(after_secondary,
                        [step |-> "source", text |-> <<"published by", content.source>>])
            ELSE after_secondary
        after_variety ==
            IF /\ score_details.ml_score < 700
               /\ score_details.category_match < 400
               /\ Len(after_source) < 3
            THEN Append(after_source, [step |-> "variety", text |-> <<"variety", "">>])
            ELSE after_source
    IN [opening |-> "Recommended because ",
        reasons |-> IF after_variety = <<>>
                    THEN <<[step |-> "default", text |-> <<"relevant", content.category>>]>>
                    ELSE after_variety]

NotExplained == [opening |-> "", reasons |-> <<>>]

ExplainIdle ==
    /\ ex_content = [category |-> "", source |-> "", upvotes |-> 0, comment_count |-> 0,
                     age_hours |-> 0]
    /\ ex_details = [feature_importance |-> <<>>, ml_score |-> 0, category_match |-> 0]
    /\ ex_result = NotExplained

\* the content has a source or none ("Unknown" is the default of content.get),
\* a timestamp or none (the age is then 0); the feature importance holds up to
\* MaxFeatures of the four groups, in any order
ExplainInit ==
    /\ ex_content \in [category : {"Tech"}, source : {"Unknown", "Reuters"},
                        upvotes : {0, 30, 60}, comment_count : {0, 10},
                        age_hours : {0, 12, 30}]
    /\ ex_details \in
           [feature_importance :
                {fi \in UNION {[1..n -> [name : {"category_match", "recency", "popularity",
                                                 "engagement"},
                                         score : {5, 10, 70}]] : n \in 0..MaxFeatures} :
                    \A i, j \in DOMAIN fi : fi[i].name = fi[j].name => i = j},
            ml_score : {500, 900}, category_match : {200, 800}]
    /\ ex_result = NotExplained

GenerateExplanation ==
    /\ ex_result = NotExplained
    /\ ex_result' = generate_explanation(ex_content, ex_details)
    /\ UNCHANGED <<ex_content, ex_details>>
    /\ UNCHANGED <<fvars, rvars, tvars, dvars, qvars, cand, refresh>>

----------------------------------------------------------------------------
(* Candidate generation on its own *)

MaxInteractions == 4

\* one call of stage 1 of recommend on the window and interactions of `cand`
GenerateCandidates ==
    /\ ~cand.called
    /\ cand' = [cand EXCEPT !.called = TRUE,
                            !.out = generate_candidates(cand.window, cand.ints, cand.weights)]
    /\ UNCHANGED <<fvars, rvars, tvars, dvars, qvars, evars, refresh>>

----------------------------------------------------------------------------
(* refresh_content.py: one content refresh cycle *)

MaxWorkers == 3
MaxTasks == 3

\* `with ThreadPoolExecutor(max_workers=min(args.workers, len(scrapers)))` and
\* the submits: every worker starts at the test of its loop
SubmitWorkers ==
    /\ refresh.main = "submit"
    /\ refresh' = [refresh EXCEPT !.main = "join",
                                  !.pc = [w \in DOMAIN refresh.pc |-> "test"]]
    /\ UNCHANGED <<fvars, rvars, tvars, dvars, qvars, evars, cand>>

\* `while not task_queue.empty()`
WorkerTestsEmpty(w) ==
    /\ refresh.pc[w] = "test"
    /\ refresh' = [refresh EXCEPT !.pc[w] = IF refresh.queue = <<>> THEN "exited" ELSE "get"]
    /\ UNCHANGED <<fvars, rvars, tvars, dvars, qvars, evars, cand>>

\* `task = task_queue.get()`: blocks while the queue is empty
WorkerGets(w) ==
    /\ refresh.pc[w] = "get"
    /\ refresh.queue # <<>>
    /\ refresh' = [refresh EXCEPT !.pc[w] = "run",
                                  !.task[w] = Head(refresh.queue),
                                  !.queue = Tail(refresh.queue)]
    /\ UNCHANGED <<fvars, rvars, tvars, dvars, qvars, evars, cand>>

\* run_scraper succeeds, fails or raises; the result is appended and
\* task_queue.task_done() called in either case
WorkerRunsScraper(w, success) ==
    /\ refresh.pc[w] = "run"
    /\ refresh' = [refresh EXCEPT
                      !.pc[w] = "test",
                      !.task[w] = "",
                      !.ran[refresh.task[w]] = @ + 1,
                      !.results = Append(@, [name |-> refresh.task[w], success |-> success]),
                      !.unfinished = @ - 1]
    /\ UNCHANGED <<fvars, rvars, tvars, dvars, qvars, evars, cand>>

\* task_queue.join() returns once every task put was marked done
QueueJoin ==
    /\ refresh.main = "join"
    /\ refresh.unfinished = 0
    /\ refresh' = [refresh EXCEPT !.main = "shutdown"]
    /\ UNCHANGED <<fvars, rvars, tvars, dvars, qvars, evars, cand>>

\* the end of the `with` block: shutdown(wait=True) joins every worker thread;
\* then post-processing runs if a scraper succeeded and is skipped if none did
ExecutorShutdown ==
    /\ refresh.main = "shutdown"
    /\ \A w \in DOMAIN refresh.pc : refresh.pc[w] = "exited"
    /\ refresh' = [refresh EXCEPT
                      !.main = IF \E k \in DOMAIN refresh.results : refresh.results[k].success
                               THEN "post_processing" ELSE "skipped"]
    /\ UNCHANGED <<fvars, rvars, tvars, dvars, qvars, evars, cand>>

RefreshNext ==
    \/ SubmitWorkers
    \/ \E w \in DOMAIN refresh.pc : WorkerTestsEmpty(w)
    \/ \E w \in DOMAIN refresh.pc : WorkerGets(w)
    \/ \E w \in DOMAIN refresh.pc : \E success \in BOOLEAN : WorkerRunsScraper(w, success)
    \/ QueueJoin
    \/ ExecutorShutdown

----------------------------------------------------------------------------
(* Specifications *)

\* cand is empty while no candidate generation is checked on its own, refresh
\* while no refresh cycle runs
PureIdle == DiversityIdle /\ QualityIdle /\ ExplainIdle /\ cand = <<>> /\ refresh = <<>>

FilterSpecInit == FilterInit /\ RecommendIdle /\ TrainIdle /\ PureIdle
FilterSpec == FilterSpecInit /\ [][FilterNext]_vars

RecommendSpecInit == FilterIdle /\ RecommendInit /\ TrainIdle /\ PureIdle
RecommendSpec == RecommendSpecInit /\ [][RecommendNext]_vars

TrainSpecInit == FilterIdle /\ RecommendIdle /\ TrainInit /\ PureIdle
TrainSpec == TrainSpecInit /\ [][TrainNext]_vars

DiversitySpecInit ==
    /\ FilterIdle /\ RecommendIdle /\ TrainIdle /\ DiversityInit /\ QualityIdle /\ ExplainIdle
    /\ cand = <<>> /\ refresh = <<>>
DiversitySpec == DiversitySpecInit /\ [][\E limit \in 1..MaxK : DiversitySelect(limit)]_vars

QualitySpecInit ==
    /\ FilterIdle /\ RecommendIdle /\ TrainIdle /\ DiversityIdle /\ QualityInit /\ ExplainIdle
    /\ cand = <<>> /\ refresh = <<>>
QualitySpec == QualitySpecInit /\ [][QualityNext]_vars

ExplainSpecInit ==
    /\ FilterIdle /\ RecommendIdle /\ TrainIdle /\ DiversityIdle /\ QualityIdle /\ ExplainInit
    /\ cand = <<>> /\ refresh = <<>>
ExplainSpec == ExplainSpecInit /\ [][GenerateExplanation]_vars

\* a window of ten items of five categories and nine sources, two of them fresh
\* and one of these upvoted more than ten times; up to MaxInteractions
\* interactions (a view, unrated or rated up or down), each with another of
\* four items of four categories; preferences that weigh Health at 55 or at 56
CandidateSpecInit ==
    /\ FilterIdle /\ RecommendIdle /\ TrainIdle /\ DiversityIdle /\ QualityIdle /\ ExplainIdle
    /\ refresh = <<>>
    /\ cand \in
          [called : {FALSE},
           window : { << [id |-> "w1", category |-> "Tech", source |-> "Reuters", age |-> 30, upvotes |-> 3],
                         [id |-> "w2", category |-> "Tech", source |-> "Blog", age |-> 30, upvotes |-> 3],
                         [id |-> "w3", category |-> "Business", source |-> "Financial Times", age |-> 30, upvotes |-> 3],
                         [id |-> "w4", category |-> "Sports", source |-> "Sports Network", age |-> 30, upvotes |-> 3],
                         [id |-> "w5", category |-> "Health", source |-> "Health Journal", age |-> 30, upvotes |-> 3],
                         [id |-> "w6", category |-> "Health", source |-> "Clinic", age |-> 30, upvotes |-> 3],
                         [id |-> "w7", category |-> "World", source |-> "Reuters", age |-> 30, upvotes |-> 3],
                         [id |-> "w8", category |-> "World", source |-> "Wire", age |-> 2, upvotes |-> 11],
                         [id |-> "w9", category |-> "World", source |-> "Gazette", age |-> 12, upvotes |-> 50],
                         [id |-> "w10", category |-> "World", source |-> "Herald", age |-> 2, upvotes |-> 10] >> },
           ints : { {[user |-> "1", content |-> f[k].content, type |-> "view",
                      rating |-> f[k].rating, at |-> k] : k \in DOMAIN f} :
                      f \in {g \in UNION {[1..n -> [content : {"w1", "w3", "w4", "w5"},
                                                     rating : {-1, 0, 1}]] :
                                            n \in 0..MaxInteractions} :
                                \A i, j \in DOMAIN g : g[i].content = g[j].content => i = j} },
           weights : { ("Health" :> 55), ("Health" :> 56) },
           out : {<<>>}]
CandidateSpec == CandidateSpecInit /\ [][GenerateCandidates]_vars

\* run_refresh_cycle after it has filled the queue: one to MaxTasks of the valid
\* scrapers, --workers from 1 to MaxWorkers
RefreshSpecInit ==
    /\ FilterIdle /\ RecommendIdle /\ TrainIdle /\ DiversityIdle /\ QualityIdle /\ ExplainIdle
    /\ cand = <<>>
    /\ \E workers \in 1..MaxWorkers : \E n \in 1..MaxTasks :
           LET scrapers == SubSeq(<<"rss", "twitter", "facebook", "reddit", "4chan", "youtube">>,
                                  1, n)
           IN refresh = [queue |-> scrapers,
                         unfinished |-> n,
                         pc |-> [w \in 1..Min(workers, n) |-> "submitted"],
                         task |-> [w \in 1..Min(workers, n) |-> ""],
                         ran |-> [name \in ItemsOf(scrapers) |-> 0],
                         results |-> <<>>,
                         main |-> "submit"]

\* every thread that can take a step eventually takes one
RefreshSpec == RefreshSpecInit /\ [][RefreshNext]_vars /\ WF_vars(RefreshNext)

----------------------------------------------------------------------------
(* The filter's claims *)

Runs == {runlog[k] : k \in DOMAIN runlog}

\* still in the store and not rejected
Survives(d) == d.present /\ d.reason = ""

\* the document would be kept by the run if it were the only one
KeptAlone(r, i) ==
    IF r.impl = "content_filter"
    THEN LegacyOutcome(r.before[i], {}).verdict = "accepted"
    ELSE LET a == process_article(r.before[i], i, [j \in {i} |-> r.before[i]], FALSE)
         IN ~a.is_duplicate /\ ~a.low_quality

\* C3: of two documents of a batch that share a url (and that the quality rules
\* alone would keep), exactly one is still in the store, not rejected, when the
\* run ends.
C3_UrlDedupOneSurvives ==
    \A r \in Runs : (r.complete /\ ~r.dry) =>
        \A i, j \in r.batch :
            (/\ i # j
             /\ r.before[i].url = r.before[j].url
             /\ KeptAlone(r, i) /\ KeptAlone(r, j))
            => Cardinality({x \in {i, j} : Survives(r.after[x])}) = 1

\* C4: a run on a corpus that the previous run fully processed changes nothing:
\* the store after it equals the store before it.
C4_RerunChangesNothing ==
    \A k \in DOMAIN runlog :
        (k > 1 /\ runlog[k - 1].complete /\ ~runlog[k - 1].dry)
        => runlog[k].after = runlog[k].before

\* the snapshot content_filter.py compares against: the filtered documents
LegacySnapshot(r) == {r.before[j] : j \in {x \in Present(r.before) : r.before[x].filtered}}

\* what content_filter.py has appended to existing_items before it processes i
AcceptedBefore(r, i) ==
    {[r.before[j] EXCEPT !.toks = clean_content(r.before[j].toks)] :
        j \in {x \in r.batch : /\ r.results[x].state = "done"
                               /\ r.results[x].verdict = "accepted"
                               /\ r.results[x].seq < r.results[i].seq}}

\* the verdict of document i decided from the snapshot read at batch start alone
SnapshotVerdict(r, i) ==
    IF r.impl = "content_filter"
    THEN LegacyOutcome(r.before[i], LegacySnapshot(r)).verdict
    ELSE LET a == process_article(r.before[i], i,
                                  [j \in Present(r.before) |-> r.before[j]], r.dry)
         IN FixedVerdict(a)

\* C8 (as claimed): every verdict of a run is the one the snapshot read at batch
\* start gives, whatever was processed before it.
C8_VerdictFromSnapshotOnly ==
    \A r \in Runs : \A i \in r.batch :
        r.results[i].state = "done" => r.results[i].verdict = SnapshotVerdict(r, i)

\* C8 (amended): content_filter_fixed.py decides every verdict from the snapshot
\* read at batch start; content_filter.py decides it from that snapshot plus the
\* documents it accepted earlier in the same run.
C8_ComparisonSet ==
    \A r \in Runs : \A i \in r.batch :
        r.results[i].state = "done" =>
            IF r.impl = "content_filter"
            THEN r.results[i].verdict =
                    LegacyOutcome(r.before[i],
                                  LegacySnapshot(r) \cup AcceptedBefore(r, i)).verdict
            ELSE r.results[i].verdict = SnapshotVerdict(r, i)

\* C8 witness: content_filter_fixed.py has deleted both documents of a url (the
\* one processed second was compared with the snapshot, where its sibling still
\* is) and content_filter.py has rejected a document as the duplicate of one it
\* accepted earlier in the run
C8_Witness ==
    /\ Len(runlog) > 0
    /\ LET r == runlog[Len(runlog)] IN
        /\ r.complete /\ ~r.dry
        /\ \E i, j \in r.batch :
              /\ i # j
              /\ r.before[i].url = r.before[j].url
              /\ \/ /\ r.impl = "content_filter_fixed"
                    /\ r.results[i].verdict = "Exact URL match"
                    /\ r.results[j].verdict = "Exact URL match"
                 \/ /\ r.impl = "content_filter"
                    /\ r.results[i].verdict = "Duplicate: Exact URL match"
                    /\ r.results[j].verdict = "accepted"

\* C9: a document that raises does not keep its siblings from being processed
\* and reported.
C9_SiblingsProcessedAndReported ==
    \A r \in Runs : \A i \in r.batch :
        r.results[i].state # "raised" => (r.results[i].state = "done" /\ r.complete)

\* the documents the run compares document i with
ComparisonSet(r, i) ==
    IF r.impl = "content_filter"
    THEN LegacySnapshot(r) \cup AcceptedBefore(r, i)
    ELSE {r.before[j] : j \in Present(r.before) \ {i}}

QualityOf(r, i) ==
    IF r.impl = "content_filter" THEN legacy_quality_score(r.before[i])
    ELSE fixed_quality_score(r.before[i])

ContentSimilarityReasons == {"Duplicate: Content similarity", "Similar content"}

\* removed by the run: deleted, or marked filtered with a filter_reason
Removed(r, i) == ~Survives(r.after[i])

\* C10 (as claimed): of two documents of a batch whose content similarity is
\* above the threshold (different urls and titles, each kept if it were alone),
\* the one with the lower quality score is removed with a reason that mentions
\* similarity, and the other one stays.
C10_LowerQualityOneRemoved ==
    \A r \in Runs : (r.complete /\ ~r.dry) =>
        \A i, j \in r.batch :
            (/\ i # j
             /\ r.before[i].url # r.before[j].url
             /\ r.before[i].title # r.before[j].title
             /\ CosineSimilarity(r.before[i], r.before[j]) > SimilarityThresholdDefault
             /\ KeptAlone(r, i) /\ KeptAlone(r, j)
             /\ QualityOf(r, i) < QualityOf(r, j))
            => /\ Removed(r, i)
               /\ r.results[i].verdict \in {"Duplicate: Similar title",
                                           "Duplicate: Content similarity",
                                           "Similar content"}
               /\ ~Removed(r, j)

\* no rule that precedes the content comparison applies to document i
ReachesContentComparison(r, i) ==
    LET d == r.before[i] IN
    /\ \A e \in ComparisonSet(r, i) : e.url # d.url
    /\ r.impl = "content_filter" =>
          /\ TextLen(d.pad, clean_content(d.toks)) >= MIN_CONTENT_LENGTH
          /\ ContentLen(d) > MIN_CONTENT_LENGTH
          /\ \A e \in ComparisonSet(r, i) : e.title # d.title

\* C10 (amended): the document being processed is the one removed, whatever the
\* two quality scores: when no url or title rule applies first, it is removed for
\* content similarity exactly when its similarity to a document of its
\* comparison set is above the threshold, and then it is deleted
\* (content_filter_fixed.py) or marked filtered with that reason
\* (content_filter.py).
C10_ProcessedOneRemoved ==
    \A r \in Runs : \A i \in r.batch :
        (r.results[i].state = "done" /\ ReachesContentComparison(r, i)) =>
            /\ (r.results[i].verdict \in ContentSimilarityReasons)
                  <=> \E e \in ComparisonSet(r, i) :
                         CosineSimilarity(r.before[i], e) > SimilarityThresholdDefault
            /\ (r.results[i].verdict \in ContentSimilarityReasons /\ ~r.dry) =>
                  IF r.impl = "content_filter"
                  THEN /\ r.after[i].filtered
                       /\ r.after[i].reason = "Duplicate: Content similarity"
                  ELSE ~r.after[i].present

\* C10 witness: the document with the higher quality score of two similar ones
\* was removed for content similarity
C10_Witness ==
    \E r \in Runs : \E i, j \in r.batch :
        /\ r.complete /\ ~r.dry /\ i # j
        /\ r.before[i].url # r.before[j].url
        /\ r.before[i].title # r.before[j].title
        /\ CosineSimilarity(r.before[i], r.before[j]) > SimilarityThresholdDefault
        /\ QualityOf(r, i) > QualityOf(r, j)
        /\ r.results[i].verdict \in ContentSimilarityReasons
        /\ Removed(r, i)

\* C13: a filter run that finds the store unreachable goes on and returns its
\* result: it does not end the process.
C13_StoreFailureDoesNotAbort ==
    \A r \in Runs : r.store_error => r.complete

\* C15: after a run that is not a dry run every document of the batch is either
\* removed (deleted, or marked filtered with the reason of its rejection) or
\* kept with filtered = true, the cleaned content_summary and its quality
\* score and factors.  A kept document is still in the store, marked filtered,
\* with the text the run's cleaning step gives and a stored quality score
\* (written together with its quality_factors) at or above the threshold.
C15_RemovedOrKeptWithMetadata ==
    \A r \in Runs : (r.complete /\ ~r.dry) =>
        \A i \in r.batch :
            \/ Removed(r, i)
            \/ LET d == r.after[i]
                   cleaned == IF r.impl = "content_filter"
                              THEN clean_content(r.before[i].toks)
                              ELSE clean_article_content(r.before[i].toks).content
               IN /\ d.present /\ d.filtered /\ d.reason = ""
                  /\ d.toks = cleaned
                  /\ d.qscore >= QUALITY_THRESHOLD

\* the number of documents that received outcome o in run r: what
\* content_filter.py wrote to them, what the tasks of content_filter_fixed.py
\* returned for them
CountOutcome(r, o) ==
    LET OutcomeOf(i) ==
            IF r.impl = "content_filter"
            THEN (IF r.after[i].reason \in LegacyDuplicateReasons THEN "duplicate"
                  ELSE IF r.after[i].reason = "Low quality" THEN "low_quality"
                  ELSE IF r.after[i].reason = "Content too short" THEN "too_short"
                  ELSE "cleaned")
            ELSE (IF IsDup(r.results[i].verdict) THEN "duplicate"
                  ELSE IF IsLow(r.results[i].verdict) THEN "low_quality"
                  ELSE IF r.results[i].verdict = "cleaned" THEN "cleaned"
                  ELSE "kept")
    IN Cardinality({i \in r.batch : OutcomeOf(i) = o})

\* C16: when a run ends, whatever the order in which the documents were
\* processed, `processed` is the size of the batch, `duplicates`, `low_quality`
\* and `cleaned` are the numbers of documents with that outcome, no document is
\* counted under two of them, and content_filter_fixed.py's `deleted` is the
\* number of documents the run took out of the store.
C16_CountersMatchOutcomes ==
    \A r \in Runs : r.complete =>
        /\ r.stats.processed = Cardinality(r.batch)
        /\ r.stats.duplicates = CountOutcome(r, "duplicate")
        /\ r.stats.low_quality = CountOutcome(r, "low_quality")
        /\ r.stats.cleaned = CountOutcome(r, "cleaned")
        /\ r.stats.duplicates + r.stats.low_quality + r.stats.cleaned <= r.stats.processed
        /\ (r.impl = "content_filter_fixed" /\ ~r.dry) =>
              r.stats.deleted = Cardinality({i \in r.batch : ~r.after[i].present})

\* C16 witness: a run of content_filter_fixed.py over two documents has ended
\* with one low-quality and one cleaned document counted
C16_Witness ==
    \E r \in Runs : /\ r.complete /\ r.impl = "content_filter_fixed"
                    /\ Cardinality(r.batch) = 2
                    /\ r.stats.low_quality = 1 /\ r.stats.cleaned = 1

----------------------------------------------------------------------------
(* The recommendation engines' claims *)

\* the items the store says the user of call c has interacted with (without the
\* database, the engine's own mock interactions)
Interacted(c) ==
    LET ints == IF mongo THEN user_interactions
                ELSE IF c.engine = "ml" THEN MLMockInteractions
                ELSE HeuristicMockInteractions
    IN {i.content : i \in {x \in ints : x.user = c.user}}

\* C1: every recommend call, whatever the preferences argument, the limit, the
\* store and the model, ends by returning a list: no exception leaves recommend.
C1_RecommendAlwaysReturns ==
    last.engine # "none" => last.outcome = "returned"

\* C2: no item a recommend call returns is one its user has interacted with, on
\* the ranked path, on the fallback paths and in the heuristic scorer.
C2_NoInteractedItemReturned ==
    last.outcome = "returned" =>
        \A k \in DOMAIN last.items : last.items[k] \notin Interacted(last)

\* C7: a recommend call leaves the caller's preferences as they were, and
\* returns what it would return had no call been served before it.
C7_RecommendIsStateless ==
    last.engine # "none" =>
        /\ last.prefs_after = last.prefs_before
        /\ last.items =
              IF last.engine = "ml"
              THEN ml_recommend(last.user, last.form, last.limit, last.model,
                                caller_original).items
              ELSE heuristic_recommend(last.user, last.form = "object", caller_original,
                                       last.limit, last.draw).items

\* C12: an ml recommend call that has no model (the ML libraries are missing,
\* or train_model gave none) and returns, returns a list that is not empty when
\* the corpus holds an eligible item (one its user has not interacted with) and
\* the limit is one or more.
C12_NoModelStillRecommends ==
    (/\ last.engine = "ml"
     /\ last.model \in {"no_ml", "none"}
     /\ last.limit >= 1
     /\ {x.id : x \in ItemsOf(get_content_items)} \ Interacted(last) # {}
     /\ last.outcome = "returned")
    => last.items # <<>>

\* C17: a cold-start call ranks the whole content window: it returns
\* min(limit, window size) items of the window and raises nothing.  The call is
\* a cold start when its user has interacted with nothing (the database is
\* there and holds no interaction of the user) and passes no preferences.
C17_ColdStartRanksWholeWindow ==
    (/\ last.engine = "ml" /\ last.model = "ok"
     /\ mongo /\ Interacted(last) = {}
     /\ last.form = "none"
     /\ \A x \in ItemsOf(get_content_items) : x.votes_ok) =>
        /\ last.outcome = "returned"
        /\ Len(last.items) = Min(last.limit, Len(get_content_items))
        /\ \A k \in DOMAIN last.items :
               last.items[k] \in {x.id : x \in ItemsOf(get_content_items)}

\* a score in thousandths lies in [0, 1]
InUnit(x) == 0 <= x /\ x <= 1000

\* C18: every score recommend produces for an item it returns lies in [0, 1]:
\* the final score and each component score, in both engines (the preference
\* weights of the bounded callers are within 0..100; the formula takes the
\* stores whose vote counts are all numbers).
C18_ScoresWithinUnitInterval ==
    (\A x \in ItemsOf(get_content_items) : x.votes_ok) =>
    \A k \in DOMAIN last.components :
        LET c == last.components[k] IN
        IF last.engine = "ml"
        THEN /\ InUnit(c.score)
             /\ InUnit(c.category_match) /\ InUnit(c.recency)
             /\ InUnit(c.popularity) /\ InUnit(c.engagement)
        ELSE /\ 0 <= c.score /\ c.score <= 1000000
             /\ InUnit(c.category_score) /\ InUnit(c.freshness)
             /\ InUnit(c.keywords) /\ InUnit(c.rating)

----------------------------------------------------------------------------
(* The model directory's claims *)

\* C5: the model, the encoders and the feature importance a request loads come
\* from one training, and while no request is saving the three files hold one
\* training (a save that fails part-way leaves the published model as it was).
C5_ReadersSeeOnePublishedModel ==
    /\ \A p \in Procs :
          got[p].src = "loaded" =>
              /\ got[p].encoders = got[p].model
              /\ got[p].importance = got[p].model
    /\ (\A p \in Procs : pc[p] \notin SavePhases) =>
          /\ encoders_file = model_file
          /\ importance_file = model_file

\* C6: at most one request is training or writing the model files at any time.
C6_OneTrainingAtATime ==
    Cardinality({p \in Procs : pc[p] \in {"training"} \cup SavePhases}) <= 1

----------------------------------------------------------------------------
(* The diversity selection's claims *)

DivCount(rows, cat) == Cardinality({k \in DOMAIN rows : rows[k].category = cat})

RECURSIVE SumCapped(_, _)
SumCapped(rows, cats) ==
    IF cats = {} THEN 0
    ELSE LET cat == CHOOSE c \in cats : TRUE
         IN Min(3, DivCount(rows, cat)) + SumCapped(rows, cats \ {cat})

\* C11: for a limit of four or more and candidates of which two categories
\* supply four or more each, the selection holds at most three items of any one
\* category, unless three a category could not reach the limit (the leftover
\* step had to run).
C11_AtMostThreePerCategory ==
    (/\ div_limit >= 4
     /\ Cardinality({cat \in DivCategories : DivCount(div_data, cat) >= 4}) >= 2
     /\ SumCapped(div_data, DivCategories) >= div_limit)
    => \A cat \in DivCategories : DivCount(div_result, cat) <= 3

\* the call found a model file less than 24 hours old, was not forced, and the
\* load has not failed
Reuses(c) == c.started /\ ~c.force /\ c.fresh /\ ~c.load_failed

C19_QualityScoreWithinUnitInterval ==
    \A x \in q_scored.computed \cup q_scored.written : 0 <= x /\ x <= 6000

\* C19 witness: an item with a clickbait title, ad phrases and more than ten
\* votes against it, whose score before the clamp is negative, was scored and
\* its score written
C19_Witness ==
    /\ q_scored.impl = "content_filter"
    /\ q_item.down > 10
    /\ CountPhrases(q_item.toks, AD_PHRASES) = 2
    /\ ContentLen(q_item) >= MIN_CONTENT_LENGTH
    /\ legacy_raw_score(q_item) < 0
    /\ q_scored.written # {}

\* the two items were scored by the same filter and differ in the added phrases only
PairScored ==
    /\ q_scored.impl # ""
    /\ q_variant # Gone
    /\ q_variant.words = q_item.words
    /\ q_variant.ease = q_item.ease

\* the branch of the length adjustment a content of `len` characters takes; an
\* empty content is a case of its own in both filters
LengthBand(script, len) ==
    IF len = 0 THEN "empty"
    ELSE IF script = "content_filter"
    THEN (IF len < MIN_CONTENT_LENGTH THEN "short"
          ELSE IF len > 1000 THEN "long"
          ELSE IF len > 500 THEN "substantial" ELSE "plain")
    ELSE (IF len < 50 THEN "short" ELSE IF len > 1000 THEN "long" ELSE "plain")

\* fewer than two phrases of `ps` in the first content, and one in the second
\* that the first does not hold
RaisesCount(ps) ==
    /\ \A j, k \in DOMAIN ps :
           (Contains(q_item.toks, ps[j]) /\ Contains(q_item.toks, ps[k])) => j = k
    /\ \E k \in DOMAIN ps :
           Contains(q_variant.toks, ps[k]) /\ ~Contains(q_item.toks, ps[k])

\* C20 as stated: of two items identical except for ad or clickbait phrases
\* added to the second, the second has the strictly lower quality_score,
\* however many phrases the first holds.
C20_MorePhrasesStrictlyLower ==
    PairScored => q_scored.second < q_scored.first

\* C20, amended: when the two contents fall in the same length band, the second
\* never has the higher quality_score; it has the strictly lower one when the
\* first's score is strictly between 0 and 1 and the addition raises a penalised
\* count that is below its cap of two: the distinct ad phrases of the content
\* in content_filter.py, the distinct ad or clickbait phrases of the content of
\* an item with a title in content_filter_fixed.py.
C20_MorePhrasesNeverHigher ==
    (/\ PairScored
     /\ LengthBand(q_scored.impl, ContentLen(q_variant))
            = LengthBand(q_scored.impl, ContentLen(q_item)))
    => /\ q_scored.second <= q_scored.first
       /\ (/\ 0 < q_scored.first /\ q_scored.first < 6000
           /\ IF q_scored.impl = "content_filter"
              THEN RaisesCount(AD_PHRASES)
              ELSE /\ q_item.title # ""
                   /\ RaisesCount(AD_PHRASES) \/ RaisesCount(CLICKBAIT_PHRASES))
             => q_scored.second < q_scored.first

\* C20 witness: a first ad phrase was added to a content in the same length
\* band and the score fell
C20_Witness ==
    /\ PairScored
    /\ LengthBand(q_scored.impl, ContentLen(q_variant))
           = LengthBand(q_scored.impl, ContentLen(q_item))
    /\ CountPhrases(q_item.toks, AD_PHRASES) = 0
    /\ CountPhrases(q_variant.toks, AD_PHRASES) = 1
    /\ 0 < q_scored.second
    /\ q_scored.second < q_scored.first

\* C21: the list recommend returns has at most `limit` entries, for every limit
\* of 0 or more and on every return path of either engine (ranked result,
\* no-model, no-candidate and error fallback), and every entry has a 'content'
\* and a 'reason' field.
C21_AtMostLimitEntries ==
    last.outcome = "returned" =>
        /\ Len(last.items) <= last.limit
        /\ Len(last.keys) = Len(last.items)
        /\ \A k \in DOMAIN last.keys : {"content", "reason"} \subseteq last.keys[k]

\* C21 witness: a fallback path has cut the five mock items down to a limit of
\* one or more
C21_Witness ==
    /\ last.engine = "ml" /\ last.outcome = "returned"
    /\ last.path \in {"no_model", "no_candidates", "error"}
    /\ last.limit >= 1
    /\ Len(last.items) = last.limit

\* C22: a run of content_filter_fixed.py started with --dryrun deletes and
\* updates nothing: while it runs and when it has ended, finished or aborted,
\* the store holds what it held when the run read it.
C22_DryRunLeavesStore ==
    /\ (fphase = "fixed" /\ dryrun) => store = articles
    /\ \A r \in Runs : r.dry => r.after = r.before

\* C22 witness: a dry run has ended that found a document to remove and one to clean
C22_Witness ==
    \E r \in Runs :
        /\ r.dry /\ r.complete
        /\ \E i \in r.batch : IsDup(r.results[i].verdict) \/ IsLow(r.results[i].verdict)
        /\ \E i \in r.batch : r.results[i].verdict = "cleaned"

C24_WeightOfEvidence ==
    (last.engine = "ml" /\ last.model = "ok" /\ last.outcome = "returned" /\ mongo) =>
        LET ints == get_user_interactions(last.user)
            all == get_content_items
        IN \A i \in ints : \A c \in ItemsOf(all) :
               (ints = {i} /\ c.id = i.content) =>
                   CategoryPreference(ints, all, c.category) =
                       (IF i.rating = -1 THEN -2
                        ELSE IF i.rating = 1 THEN 6
                        ELSE CASE i.type = "view" -> 2 [] i.type = "click" -> 3
                               [] i.type = "save" -> 4 [] i.type = "share" -> 5
                               [] OTHER -> 2)

\* C27: the verdict content_filter.py records for an item is decided by the
\* first matching step in the order exact-URL match, title match, content
\* similarity, quality threshold: an item whose URL matches an existing one is
\* recorded as a duplicate by URL whatever its quality, any other duplicate with
\* the reason of its step, and an item that is no duplicate and scores below
\* the threshold is rejected with a reason that names its low quality.
C27_FirstMatchingStepDecides ==
    \A r \in Runs : \A i \in r.batch :
        (r.impl = "content_filter" /\ r.results[i].state = "done") =>
            LET item == r.before[i]
                ex == LegacySnapshot(r) \cup AcceptedBefore(r, i)
                d == is_duplicate(item, ex)
                verdict == r.results[i].verdict
            IN /\ (item.url # "" /\ \E e \in ex : e.url = item.url)
                      => verdict = "Duplicate: Exact URL match"
               /\ d.dup => verdict = d.reason
               /\ (~d.dup /\ legacy_quality_score(item) < QUALITY_THRESHOLD)
                      => (verdict = "Low quality" /\ r.after[i].reason = "Low quality")

\* C30: after a filter run, every item the run dropped as a duplicate has a
\* counterpart, an item it matches, that is still in the store and was itself
\* rejected neither as a duplicate nor as sub-quality.
C30_DroppedDuplicateHasSurvivingCounterpart ==
    \A r \in Runs : (r.complete /\ ~r.dry) =>
        \A i \in r.batch :
            LET item == r.before[i]
                Matched(j) ==
                    IF r.impl = "content_filter"
                    THEN is_duplicate(item, {r.before[j],
                                             [r.before[j] EXCEPT
                                                 !.toks = clean_content(r.before[j].toks)]}).dup
                    ELSE detect_duplicate(item, i, [x \in {j} |-> r.before[j]]).dup
            IN (/\ r.results[i].state = "done"
                /\ \/ IsDup(r.results[i].verdict)
                   \/ r.results[i].verdict \in LegacyDuplicateReasons)
               => \E j \in Present(r.before) \ {i} : Matched(j) /\ Survives(r.after[j])

\* C26: for every scored candidate list of n items and every limit K of 1 or
\* more, the diversity selection (first pass, then backfill) returns exactly
\* min(K, n) items, each of them a candidate and none of them twice.
C26_ExactlyMinOfLimitAndCandidates ==
    div_limit >= 1 =>
        /\ Len(div_result) = Min(div_limit, Len(div_data))
        /\ \A k \in DOMAIN div_result : div_result[k] \in ItemsOf(div_data)
        /\ \A j, k \in DOMAIN div_result : div_result[j] = div_result[k] => j = k

\* C26 witness: the first pass left items out and ended short of the limit, and
\* the selection holds `limit` items, more than three of one category
C26_Witness ==
    /\ div_limit >= 1
    /\ Len(div_data) > div_limit
    /\ Len(DiversityLoop(SortByScore(div_data), 1, <<>>, div_limit)) < div_limit
    /\ Len(div_result) = div_limit

\* C29: the list returned is in non-increasing order of ranking score, also
\* when the diversity selection skipped items and then backfilled them.
C29_NonIncreasingScores ==
    \A j, k \in DOMAIN div_result : j < k => div_result[j].score >= div_result[k].score

(* The refresh cycle's claims *)

\* C28: every content refresh cycle terminates: for every number of worker
\* threads and of scraper tasks and under every interleaving of the workers,
\* each queued scraper task is executed exactly once, every worker thread exits
\* (none stays blocked taking a task from the emptied queue), and the cycle goes
\* on to its post-processing step.
C28_RefreshCycleTerminates ==
    <>(/\ refresh.main \in {"post_processing", "skipped"}
       /\ \A w \in DOMAIN refresh.pc : refresh.pc[w] = "exited"
       /\ \A name \in DOMAIN refresh.ran : refresh.ran[name] = 1)

(* The candidate generation's claims *)

====
